---- MODULE Spec2Model ----
(***************************************************************************)
(* Model of the DAP server of mqt-debugger (mqt.debugger.dap.DAPServer):   *)
(* the command cycle of handle_client (dispatch, response, derived events, *)
(* regular_checks) and the coordinate mapping between character offsets    *)
(* and (line, column) pairs.  The execution engine (pydebugger) is an      *)
(* external collaborator: it is modelled by the predicates the server      *)
(* samples, with nondeterministic outcomes of its operations.              *)
(***************************************************************************)
EXTENDS Integers, Sequences, FiniteSets, TLC

\* ---------------------------------------------------------------- bounds
MaxProgram == 1     \* longest program text a launch or restart loads (protocol behaviours)
MaxLen == 3         \* longest text of the coordinate-mapping behaviours
MaxCauses == 1      \* most error causes the diagnostics report for one failure
MaxBreakpoints == 2 \* most breakpoints one setBreakpoints request carries
MaxFrames == 2      \* most frames the peer sends on one connection (framing behaviours)
MaxBody == 1        \* most characters between the braces of an inbound body
MaxText == 3        \* most characters of text in an outgoing message (sending behaviours)
MaxSeq == 2         \* largest seq the peer gives a request (sequence-number behaviours)
MaxRegisters == 2   \* most classical declarations of a program (variables behaviours)
MaxBits == 2        \* most bits of one classical register
MaxDepth == 2       \* deepest call stack of a stopped program (restartFrame behaviours)
MaxCalls == 2       \* the calls of one iteration that are told apart (later ones are not recorded)
MaxQubits == 2      \* most qubits of a program (quantum state behaviours)
MaxStart == 2       \* largest start of a variables request
MaxCount == 2       \* largest count of a variables request

VARIABLES
    sim,                  \* DAPServer.simulation_state (the engine handle and what it reports)
    can_step_back,        \* DAPServer.can_step_back
    lines_start_at_one,   \* DAPServer.lines_start_at_one
    columns_start_at_one, \* DAPServer.columns_start_at_one
    source_code,          \* DAPServer.source_code, a sequence of characters
    source_file,          \* DAPServer.source_file: NoSourceFile until a launch assigns it
    cmd,                  \* the request handled by the last iteration of handle_client
    sent,                 \* the messages written to the connection by that iteration, in order
    calls,                \* the execution operations that iteration invoked on the engine, in order
    exception_breakpoints, \* DAPServer.exception_breakpoints: the filters last recorded
    pc,                   \* "idle": at the top of the loop; "dead": loop left by an exception;
                          \* "returned": loop left by break; "handling": in the loop of
                          \* RestartFrameDAPMessage.handle
    frames,               \* the bodies of the frames the peer sends, in order
    inbound,              \* the part of the peer's byte stream that no recv has returned yet
    data_str,             \* handle_client's data_str
    message_str,          \* handle_client's message_str
    data,                 \* handle_client's data: what the last recv returned
    dispatched,           \* the payloads json.loads has decoded for handle_command, in order
    payload,              \* the JSON text last handed to send_message
    wire,                 \* the bytes send_message wrote for it
    peer_seq              \* the seq the peer puts in the requests of this connection

\* the variables of the peer and of the byte streams, which the command cycle
\* does not change
transport == <<frames, inbound, data_str, message_str, data, dispatched, payload, wire, peer_seq>>

vars == <<sim, can_step_back, lines_start_at_one, columns_start_at_one, source_code, source_file,
          exception_breakpoints, cmd, sent, calls, pc, transport>>

\* ------------------------------------------------------------ source text
Chars == {"c", "nl"}
TextsUpTo(len) == UNION {[1..k -> Chars] : k \in 0..len}
Programs == TextsUpTo(MaxProgram)
Texts == TextsUpTo(MaxLen)

\* str.split("\n"): the lines of a text, the separators removed (always at least one line)
RECURSIVE SplitFrom(_, _, _)
SplitFrom(text, i, cur) ==
    IF i > Len(text) THEN <<cur>>
    ELSE IF text[i] = "nl" THEN <<cur>> \o SplitFrom(text, i + 1, <<>>)
    ELSE SplitFrom(text, i + 1, Append(cur, text[i]))

Split(text) == SplitFrom(text, 1, <<>>)

\* the for loop of code_pos_to_coordinates: i is the 0-based line index;
\* yields <<line, col>> as they stand after the loop (0, 0 when no line matched)
RECURSIVE PosLoop(_, _, _)
PosLoop(lines, i, pos) ==
    IF i >= Len(lines) THEN <<0, 0>>
    ELSE IF pos < Len(lines[i + 1]) THEN <<i + 1, pos>>
    ELSE PosLoop(lines, i + 1, pos - (Len(lines[i + 1]) + 1))

code_pos_to_coordinates(text, l1, c1, pos) ==
    LET lc == PosLoop(Split(text), 0, pos)
        col == IF c1 THEN lc[2] + 1 ELSE lc[2]
        line == IF ~l1 THEN lc[1] - 1 ELSE lc[1]
    IN <<line, col>>

\* the for loop of code_coordinates_to_pos: sum of len(lines[k]) + 1 for k in range(upto)
RECURSIVE LineSum(_, _)
LineSum(lines, upto) ==
    IF upto <= 0 THEN 0
    ELSE LineSum(lines, upto - 1) + Len(lines[upto]) + 1

code_coordinates_to_pos_nocol(text, l1, c1, line, col) ==
    LET ln == IF ~l1 THEN line + 1 ELSE line
    IN LineSum(Split(text), ln - 1) + col

code_coordinates_to_pos(text, l1, c1, line, col) ==
    LET ln == IF ~l1 THEN line + 1 ELSE line
        pos == LineSum(Split(text), ln - 1) + col
    IN IF c1 THEN pos - 1 ELSE pos

\* ---------------------------------------------------------------- engine
\* What the server can observe of a SimulationState: the loaded program, the
\* current instruction, and the two stop flags.  Every character of the
\* program text other than a line break stands for one instruction.
\* handle: "default" is the SimulationState() of __init__ (no engine behind
\* it), "live" one obtained from create_ddsim_simulation_state, "released"
\* one passed to destroy_ddsim_simulation_state.  classical: the names of
\* the classical variables in the order of their engine indices.  depth:
\* the number of frames of the call stack, the frame main included.
EngineState(h, code, ip, failed, bphit) ==
    [handle |-> h, code |-> code, ip |-> ip, failed |-> failed, bphit |-> bphit, breakpoints |-> {},
     classical |-> <<>>, depth |-> 1]

\* the offsets (0-based) of the instructions of a program text, ascending
RECURSIVE InstructionStarts(_, _)
InstructionStarts(text, i) ==
    IF i > Len(text) THEN <<>>
    ELSE (IF text[i] = "c" THEN <<i - 1>> ELSE <<>>) \o InstructionStarts(text, i + 1)

create_ddsim_simulation_state == EngineState("live", <<>>, 0, FALSE, FALSE)

destroy_ddsim_simulation_state(s) == [s EXCEPT !.handle = "released"]

get_instruction_count(s) == Len(InstructionStarts(s.code, 1))
get_current_instruction(s) == s.ip
\* <<start, end>> of instruction i (0-based)
get_instruction_position(s, i) ==
    <<InstructionStarts(s.code, 1)[i + 1], InstructionStarts(s.code, 1)[i + 1] + 1>>
is_finished(s) == s.ip = get_instruction_count(s)
can_step_backward(s) == s.ip > 0
did_assertion_fail(s) == s.failed
was_breakpoint_hit(s) == s.bphit

\* an operation on a handle that was never created or was released may fail;
\* on a released handle it may also still answer from the retained state
Usable(s) == s.handle \in {"live", "released"}

\* the breakpoint table holds instruction indices of the loaded program: a
\* newly loaded program starts with an empty table; the program texts of
\* launch and restart declare no classical variable
load_code(s, code) ==
    [s EXCEPT !.code = code, !.ip = 0, !.failed = FALSE, !.bphit = FALSE, !.breakpoints = {},
              !.classical = <<>>, !.depth = 1]
load_code_rejected(s) ==
    [s EXCEPT !.code = <<>>, !.ip = 0, !.failed = FALSE, !.bphit = FALSE, !.breakpoints = {},
              !.classical = <<>>, !.depth = 1]
reset_simulation(s) == [s EXCEPT !.ip = 0, !.failed = FALSE, !.bphit = FALSE, !.depth = 1]

\* the states a forward operation can end in: it stops at an instruction in
\* lo..hi; a failed assertion or a hit breakpoint stops it before the end
StopsAt(s, lo, hi, mayFail) ==
    {t \in {[s EXCEPT !.ip = i, !.failed = f, !.bphit = b] :
                i \in lo..hi, f \in BOOLEAN, b \in BOOLEAN} :
        /\ (t.failed \/ t.bphit) => t.ip < get_instruction_count(t)
        /\ t.failed => mayFail}

Min(a, b) == IF a < b THEN a ELSE b

step_forward(s) == StopsAt(s, s.ip, Min(s.ip + 1, get_instruction_count(s)), TRUE)
step_over_forward(s) == StopsAt(s, s.ip, get_instruction_count(s), TRUE)
step_out_forward(s) == StopsAt(s, s.ip, get_instruction_count(s), TRUE)
run_simulation(s) == StopsAt(s, s.ip, get_instruction_count(s), TRUE)
step_over_backward(s) == StopsAt(s, 0, s.ip, FALSE)
\* stepping out backward leaves the innermost frame; the frame main is never left
get_stack_depth(s) == s.depth
step_out_backward(s) == StopsAt([s EXCEPT !.depth = IF @ > 1 THEN @ - 1 ELSE 1], 0, s.ip, FALSE)
run_simulation_backward(s) == StopsAt(s, 0, s.ip, FALSE)
pause_simulation(s) == s

clear_breakpoints(s) == [s EXCEPT !.breakpoints = {}]

\* the instructions whose span holds the position (0-based offset)
InstructionsAt(s, position) ==
    {i \in 0..(get_instruction_count(s) - 1) :
        /\ get_instruction_position(s, i)[1] <= position
        /\ position <= get_instruction_position(s, i)[2]}

\* set_breakpoint raises RuntimeError when no instruction holds the position
set_breakpoint_fails(s, position) == InstructionsAt(s, position) = {}

\* the instruction set_breakpoint returns: the first one that holds the position
breakpoint_instruction(s, position) ==
    CHOOSE i \in InstructionsAt(s, position) : \A j \in InstructionsAt(s, position) : i <= j

set_breakpoint(s, position) ==
    [s EXCEPT !.breakpoints = @ \cup {breakpoint_instruction(s, position)}]

\* get_diagnostics().potential_error_causes(): a list of cause types
CauseTypes == {"MissingInteraction", "ControlAlwaysZero", "Unknown"}
CauseLists == UNION {[1..k -> CauseTypes] : k \in 0..MaxCauses}


\* -------------------------------------------------------------- messages
\* detail: success flag, stop reason, output group or capability value;
\* code: exit code; line, column: the position an Output event refers to;
\* body: the breakpoints of a setBreakpoints response; request_seq: the
\* request_seq of a response, -1 in an event
Msg(type, name, detail, code) ==
    [type |-> type, name |-> name, detail |-> detail, code |-> code, line |-> 0, column |-> 0,
     body |-> <<>>, request_seq |-> -1]

\* DAPMessage.handle: the response to a request (detail: the success flag)
Response(command, success) == Msg("response", command, IF success THEN "success" ELSE "failure", -1)

InitializedDAPEvent == Msg("event", "initialized", "", -1)
StoppedDAPEvent(reason) == Msg("event", "stopped", reason, -1)
GrayOutDAPEvent == Msg("event", "grayOut", "", -1)
OutputDAPEvent(group, line, column) ==
    [Msg("event", "output", group, -1) EXCEPT !.line = line, !.column = column]
TerminatedDAPEvent == Msg("event", "terminated", "", -1)
ExitedDAPEvent(exit_code) == Msg("event", "exited", "", exit_code)
CapabilitiesDAPEvent(supportsStepBack) ==
    Msg("event", "capabilities", IF supportsStepBack THEN "true" ELSE "false", -1)

\* ------------------------------------------------------------- requests
\* the program argument of launch and restart: a path, its last component
\* being the file name
MainProgram == [dir |-> "/w", name |-> "main.qasm"]
ProgramPaths == {MainProgram}

\* line 73 of launch: {"name": program_path.name, "path": self.program}
SourceFileOf(program) == [name |-> program.name, path |-> program]

\* DAPServer.exception_breakpoints before any setExceptionBreakpoints has
\* assigned it: __init__ does not create the attribute
NoExceptionBreakpoints == {"unassigned"}

\* DAPServer.source_file before any launch has assigned it
NoSourceFile == [name |-> "", path |-> [dir |-> "", name |-> ""]]

\* a request as its constructor leaves it; seq is its sequence_number,
\* source and breakpoints are the arguments of setBreakpoints, reference
\* and filter_value those of variables; valid: its validate() does not raise
Request(name, stop_on_entry) ==
    [name |-> name, stop_on_entry |-> stop_on_entry, seq |-> peer_seq, source |-> NoSourceFile,
     breakpoints |-> <<>>, reference |-> 0, filter_value |-> "", valid |-> TRUE]

StepCommands == {"next", "stepBack", "stepIn", "stepOut", "continue", "reverseContinue", "restartFrame"}
EntryCommands == {"launch", "restart"}
PlainCommands == {"threads", "configurationDone"}
supported_messages ==
    {"initialize", "disconnect", "terminate", "pause", "setBreakpoints", "exceptionInfo", "variables"}
    \cup StepCommands \cup EntryCommands \cup PlainCommands

\* the command name written into the response by each handle()
ResponseCommand(c) == IF c.name = "restart" THEN "launch" ELSE c.name

\* -------------------------------------------------- handle_assertion_fail
\* format_error_cause: the empty string for a cause type without a text
format_error_cause(cause) ==
    IF cause = "MissingInteraction" THEN "missing interaction"
    ELSE IF cause = "ControlAlwaysZero" THEN "control always zero"
    ELSE ""

RECURSIVE NonEmptyMessages(_)
NonEmptyMessages(causes) ==
    IF causes = <<>> THEN <<>>
    ELSE (IF format_error_cause(Head(causes)) = "" THEN <<>> ELSE <<format_error_cause(Head(causes))>>)
         \o NonEmptyMessages(Tail(causes))

ErrorCausesOutputs_noend(causes, line, column) ==
    LET msgs == NonEmptyMessages(causes)
    IN IF msgs = <<>> THEN <<OutputDAPEvent("none", line, column)>>
       ELSE <<OutputDAPEvent("start", line, column)>>
            \o [i \in 1..Len(msgs) |-> OutputDAPEvent("none", line, column)]

\* the Output events of error_causes_body: one plain line when there is no
\* message, a group (title, one line per message, end) otherwise
ErrorCausesOutputs(causes, line, column) ==
    LET msgs == NonEmptyMessages(causes)
    IN IF msgs = <<>> THEN <<OutputDAPEvent("none", line, column)>>
       ELSE <<OutputDAPEvent("start", line, column)>>
            \o [i \in 1..Len(msgs) |-> OutputDAPEvent("none", line, column)]
            \o <<OutputDAPEvent("end", line, column)>>

\* send_message_hierarchy on {title, body: [instruction, highlighting note, error_causes_body]}
send_message_hierarchy(causes, line, column) ==
    <<OutputDAPEvent("start", line, column), OutputDAPEvent("none", line, column),
      OutputDAPEvent("none", line, column)>>
    \o ErrorCausesOutputs(causes, line, column) \o <<OutputDAPEvent("end", line, column)>>

\* the session as a handler leaves it: the fields of DAPServer
Server(s, text, l1, c1, csb, file) ==
    [sim |-> s, source_code |-> text, lines_start_at_one |-> l1, columns_start_at_one |-> c1,
     can_step_back |-> csb, source_file |-> file, calls |-> <<>>]

handle_assertion_fail_nogray(srv, causes) ==
    LET start == get_instruction_position(srv.sim, get_current_instruction(srv.sim))[1]
        lc == code_pos_to_coordinates(srv.source_code, srv.lines_start_at_one,
                                      srv.columns_start_at_one, start)
    IN send_message_hierarchy(causes, lc[1], lc[2])

\* the GrayOut event, then the Output events, which carry the line and
\* column of the failing instruction in the server's source_code
handle_assertion_fail(srv, causes) ==
    LET start == get_instruction_position(srv.sim, get_current_instruction(srv.sim))[1]
        lc == code_pos_to_coordinates(srv.source_code, srv.lines_start_at_one,
                                      srv.columns_start_at_one, start)
    IN <<GrayOutDAPEvent>> \o send_message_hierarchy(causes, lc[1], lc[2])

\* ------------------------------------------------------- setBreakpoints
\* the source argument of a request: name and path are sent independently
RequestSources ==
    [name : {"main.qasm", "other.qasm"}, path : {MainProgram, [dir |-> "/v", name |-> "main.qasm"]}]

\* the (line, column) pairs of a request; column -1 stands for an absent
\* column.  Requests for the main file ask for any line up to one past the
\* longest program, and for line 1 with a column; requests for another file
\* ask for line 1.
BreakpointLines == 0..(MaxProgram + 1)
MainFilePairs == (BreakpointLines \X {-1}) \cup {<<1, 1>>}
OtherFilePairs == {<<1, -1>>}
MainFileLists == UNION {[1..k -> MainFilePairs] : k \in 0..MaxBreakpoints}
OtherFileLists == UNION {[1..k -> OtherFilePairs] : k \in 0..MaxBreakpoints}
BreakpointLists(source) ==
    IF source = SourceFileOf(MainProgram) THEN MainFileLists ELSE OtherFileLists

BreakpointsRequest(source, bps) ==
    [Request("setBreakpoints", FALSE) EXCEPT !.source = source, !.breakpoints = bps]

\* an entry of the response body; line to endColumn are -1 where the code sets none
BreakpointEntry(id, verified, message, start, end) ==
    [id |-> id, verified |-> verified, message |-> message,
     reason |-> IF verified THEN "" ELSE "failed",
     line |-> start[1], column |-> start[2], endLine |-> end[1], endColumn |-> end[2]]

\* lines 85-91
RECURSIVE WrongFileEntries(_, _)
WrongFileEntries(bps, i) ==
    IF i >= Len(bps) THEN <<>>
    ELSE <<BreakpointEntry(i, FALSE, "Breakpoints only supported in the main file",
                           <<-1, -1>>, <<-1, -1>>)>>
         \o WrongFileEntries(bps, i + 1)

\* lines 51-54: the offset asked of the engine for one requested breakpoint
BreakpointPosition(srv, bp) ==
    code_coordinates_to_pos(srv.source_code, srv.lines_start_at_one, srv.columns_start_at_one,
                            bp[1],
                            IF bp[2] # -1 THEN bp[2] ELSE IF srv.columns_start_at_one THEN 1 ELSE 0)

\* lines[line_index] of code_coordinates_to_pos raises IndexError for a line
\* more than one past the last line of the source
LineOutOfText(srv, bp) ==
    (IF ~srv.lines_start_at_one THEN bp[1] + 1 ELSE bp[1]) - 1 > Len(Split(srv.source_code))

\* lines 56-68: the entry of a breakpoint the engine has set
VerifiedEntry(i, srv, instruction) ==
    LET se == get_instruction_position(srv.sim, instruction)
    IN BreakpointEntry(i, TRUE, "",
                       code_pos_to_coordinates(srv.source_code, srv.lines_start_at_one,
                                               srv.columns_start_at_one, se[1]),
                       code_pos_to_coordinates(srv.source_code, srv.lines_start_at_one,
                                               srv.columns_start_at_one, se[2]))

RECURSIVE SetBreakpointsLoop_abort(_, _, _, _)
SetBreakpointsLoop_abort(srv, bps, i, bpts) ==
    IF i >= Len(bps) THEN [srv |-> srv, body |-> bpts, raised |-> FALSE]
    ELSE IF LineOutOfText(srv, bps[i + 1]) THEN [srv |-> srv, body |-> bpts, raised |-> TRUE]
    ELSE LET position == BreakpointPosition(srv, bps[i + 1])
         IN IF set_breakpoint_fails(srv.sim, position)
            THEN [srv |-> srv, raised |-> FALSE,
                  body |-> Append(bpts, BreakpointEntry(i, FALSE, "Breakpoint could not be set",
                                                        <<-1, -1>>, <<-1, -1>>))]
            ELSE SetBreakpointsLoop_abort(
                    [srv EXCEPT !.sim = set_breakpoint(srv.sim, position)], bps, i + 1,
                    Append(bpts, VerifiedEntry(i, srv, breakpoint_instruction(srv.sim, position))))

\* lines 50-70: the loop over the requested breakpoints from index i on, bpts
\* being the entries appended so far; raised: the loop was left by IndexError
RECURSIVE SetBreakpointsLoop(_, _, _, _)
SetBreakpointsLoop(srv, bps, i, bpts) ==
    IF i >= Len(bps) THEN [srv |-> srv, body |-> bpts, raised |-> FALSE]
    ELSE IF LineOutOfText(srv, bps[i + 1]) THEN [srv |-> srv, body |-> bpts, raised |-> TRUE]
    ELSE LET position == BreakpointPosition(srv, bps[i + 1])
         IN IF set_breakpoint_fails(srv.sim, position)
            THEN SetBreakpointsLoop(
                    srv, bps, i + 1,
                    Append(bpts, BreakpointEntry(i, FALSE, "Breakpoint could not be set",
                                                 <<-1, -1>>, <<-1, -1>>)))
            ELSE SetBreakpointsLoop(
                    [srv EXCEPT !.sim = set_breakpoint(srv.sim, position)], bps, i + 1,
                    Append(bpts, VerifiedEntry(i, srv, breakpoint_instruction(srv.sim, position))))

WrongFile_nameonly(c, srv) == c.source.name # srv.source_file.name

\* line 43
WrongFile(c, srv) ==
    c.source.name # srv.source_file.name \/ c.source.path # srv.source_file.path

SetBreakpointsHandle_noclear(c, srv) ==
    IF WrongFile(c, srv)
    THEN [srv |-> srv, body |-> WrongFileEntries(c.breakpoints, 0), raised |-> FALSE]
    ELSE SetBreakpointsLoop(srv, c.breakpoints, 0, <<>>)

\* SetBreakpointsDAPMessage.handle: the session it leaves and the body of
\* its response
SetBreakpointsHandle(c, srv) ==
    IF WrongFile(c, srv)
    THEN [srv |-> srv, body |-> WrongFileEntries(c.breakpoints, 0), raised |-> FALSE]
    ELSE SetBreakpointsLoop([srv EXCEPT !.sim = clear_breakpoints(srv.sim)], c.breakpoints, 0, <<>>)

\* ------------------------------------------------------------- variables
\* The name of a classical variable: bit `index` of register `base`, written
\* base[index]; index -1 is a name without "[", the bare word `base`.
VariableName(base, index) == [base |-> base, index |-> index]

\* "[" in name
HasBracket(name) == name.index # -1

\* name.split("[")[0], as a name of its own
BaseName(name) == VariableName(name.base, -1)

\* the variables of a program in engine order: every declaration gives its
\* bits one after the other, bit 0 first; sizes[k] is the number of bits of
\* the k-th declaration, 0 for a variable whose name has no "["
RECURSIVE ClassicalLayout(_, _)
ClassicalLayout(sizes, k) ==
    IF k > Len(sizes) THEN <<>>
    ELSE (IF sizes[k] = 0 THEN <<VariableName(k, -1)>>
          ELSE [i \in 1..sizes[k] |-> VariableName(k, i - 1)])
         \o ClassicalLayout(sizes, k + 1)

get_num_classical_variables(s) == Len(s.classical)
get_classical_variable_name(s, i) == s.classical[i + 1]

\* one entry of the "variables" list of a response (the rendered value of
\* the variable is not represented)
Variable(name, type, reference) == [name |-> name, type |-> type, variablesReference |-> reference]

ChildrenLoop_nobreak(s, i, name) ==
    [k \in 1..(get_num_classical_variables(s) - i) |->
        Variable(get_classical_variable_name(s, i + k - 1), "boolean", 0)]

\* lines 70-80: the loop over range(index, num), left at the first variable
\* of another base name
RECURSIVE ChildrenLoop(_, _, _)
ChildrenLoop(s, i, name) ==
    IF i >= get_num_classical_variables(s) THEN <<>>
    ELSE IF BaseName(get_classical_variable_name(s, i)) # name THEN <<>>
    ELSE <<Variable(get_classical_variable_name(s, i), "boolean", 0)>> \o ChildrenLoop(s, i + 1, name)

\* get_classical_variable_name raises for an index that names no variable
ChildrenRaises(s, index, filter_value) ==
    filter_value # "named" /\ index >= get_num_classical_variables(s)

_get_classical_children(s, index, filter_value) ==
    IF filter_value = "named" THEN <<>>
    ELSE ChildrenLoop(s, index, BaseName(get_classical_variable_name(s, index)))

\* variable_groupings[key] = (first, []): a dictionary keeps the place of a key it already holds
DictSet(groups, key, first) ==
    IF \E k \in 1..Len(groups) : groups[k].key = key
    THEN [k \in 1..Len(groups) |->
            IF groups[k].key = key THEN [key |-> key, first |-> first, indices |-> <<>>] ELSE groups[k]]
    ELSE Append(groups, [key |-> key, first |-> first, indices |-> <<>>])

\* variable_groupings[key][1].append(name)
DictAppend(groups, key, name) ==
    [k \in 1..Len(groups) |->
        IF groups[k].key = key THEN [groups[k] EXCEPT !.indices = Append(@, name)] ELSE groups[k]]

\* lines 90-98: the dictionary after the variables from engine index i on were seen
RECURSIVE GroupLoop(_, _, _)
GroupLoop(s, i, groups) ==
    IF i >= get_num_classical_variables(s) THEN groups
    ELSE LET name == get_classical_variable_name(s, i)
         IN IF ~HasBracket(name) THEN GroupLoop(s, i + 1, DictSet(groups, name, i))
            ELSE GroupLoop(s, i + 1,
                    DictAppend(IF \E k \in 1..Len(groups) : groups[k].key = BaseName(name)
                               THEN groups ELSE DictSet(groups, BaseName(name), i),
                               BaseName(name), name))

\* lines 100-123: a variable without bits is a leaf, a register is compound
GroupVariable(g) ==
    IF g.indices = <<>> THEN Variable(g.key, "boolean", 0)
    ELSE Variable(g.key, "integer", 10 + g.first)

_get_classical_variables(s, filter_value) ==
    IF filter_value = "indexed" THEN <<>>
    ELSE [k \in 1..Len(GroupLoop(s, 0, <<>>)) |-> GroupVariable(GroupLoop(s, 0, <<>>)[k])]

\* the engine state of a program with qubits carries their number
get_num_qubits(s) == s.num_qubits

\* the digits of i to the base 2, the most significant first ("0" for 0)
RECURSIVE Binary(_)
Binary(i) == IF i < 2 THEN <<i>> ELSE Binary(i \div 2) \o <<i % 2>>

\* format(i, f"0{num_q}b"): the digits, zeros put before them up to the
\* width num_q; a number of more digits keeps them all
FormatBinary(i, num_q) ==
    [k \in 1..(num_q - Len(Binary(i))) |-> 0] \o Binary(i)

\* one entry of the quantum state (the amplitude is not represented)
QuantumVariable(bitstring) ==
    [name |-> bitstring, evaluateName |-> bitstring, type |-> "complex", variablesReference |-> 0]

TooManyQubits == [name |-> <<>>, type |-> "string", variablesReference |-> 0]

\* the loop of lines 145-153 over range(start, start + num_variables)
QuantumLoop(num_q, start, num_variables) ==
    [k \in 1..num_variables |-> QuantumVariable(FormatBinary(start + k - 1, num_q))]

\* lines 128-154; lines 142-143 assign start = 0 and count = 10 over the
\* arguments before the loop reads them
_get_quantum_state_variables(s, start, count, filter_value) ==
    IF filter_value = "indexed" THEN <<>>
    ELSE IF get_num_qubits(s) > 8 /\ count = 0 THEN <<TooManyQubits>>
    ELSE QuantumLoop(get_num_qubits(s), 0, IF 10 = 0 THEN 2 ^ get_num_qubits(s) ELSE 10)

\* VariablesDAPMessage.handle: the "variables" of the body
VariablesHandle(c, srv) ==
    IF c.reference = 1 THEN _get_classical_variables(srv.sim, c.filter_value)
    ELSE IF c.reference = 2
    THEN _get_quantum_state_variables(srv.sim, c.start, c.count, c.filter_value)
    ELSE IF c.reference >= 10 THEN _get_classical_children(srv.sim, c.reference - 10, c.filter_value)
    ELSE <<>>

\* get_default_capabilities of the package of InitializeDAPMessage
get_default_capabilities ==
    [supportsConfigurationDoneRequest |-> TRUE,
     supportsFunctionBreakpoints |-> FALSE,
     supportsConditionalBreakpoints |-> FALSE,
     supportsHitConditionalBreakpoints |-> FALSE,
     supportsEvaluateForHovers |-> FALSE,
     supportsExceptionInfoRequest |-> TRUE,
     exceptionBreakpointFilters |-> <<>>,
     supportsStepBack |-> TRUE,
     supportsSetVariable |-> FALSE,
     supportsRestartFrame |-> TRUE,
     supportsTerminateRequest |-> TRUE,
     supportsRestartRequest |-> TRUE,
     supportsVariableType |-> TRUE,
     supportsDelayedStackTraceLoading |-> FALSE,
     supportsVariablePaging |-> TRUE]

\* the body of the response to request c, given the session its handle() left
ResponseBody(c, srv) ==
    IF c.name = "setBreakpoints" THEN SetBreakpointsHandle(c, srv).body
    ELSE IF c.name = "initialize" THEN get_default_capabilities
    ELSE IF c.name = "variables" THEN VariablesHandle(c, srv)
    ELSE <<>>

\* the dictionary handle() returns, as written to the connection
HandleResponse(c, success, srv) ==
    [Response(ResponseCommand(c), success) EXCEPT !.body = ResponseBody(c, srv),
                                                  !.request_seq = c.seq]

\* ------------------------------------------------ handle_client, events
StopReasonOf_bpfirst(s) ==
    IF was_breakpoint_hit(s) THEN "instruction breakpoint"
    ELSE IF did_assertion_fail(s) THEN "exception"
    ELSE "step"

\* lines 192-198: assertion failed > breakpoint hit > step
StopReasonOf(s) ==
    IF did_assertion_fail(s) THEN "exception"
    ELSE IF was_breakpoint_hit(s) THEN "instruction breakpoint"
    ELSE "step"

\* lines 156-159
InitializedEvents(c) == IF c.name = "launch" THEN <<InitializedDAPEvent>> ELSE <<>>

\* lines 160-170
EntryEvents(c) ==
    IF c.name \in EntryCommands /\ c.stop_on_entry THEN <<StoppedDAPEvent("entry")>> ELSE <<>>

StopEvents_alsoentry(c, srv, causes) ==
    IF c.name \in StepCommands \/ c.name \in EntryCommands
    THEN <<StoppedDAPEvent(StopReasonOf(srv.sim))>>
         \o (IF did_assertion_fail(srv.sim) THEN handle_assertion_fail(srv, causes) ELSE <<>>)
    ELSE <<>>

\* lines 171-210
StopEvents(c, srv, causes) ==
    IF c.name \in StepCommands \/ (c.name \in EntryCommands /\ ~c.stop_on_entry)
    THEN <<StoppedDAPEvent(StopReasonOf(srv.sim))>>
         \o (IF did_assertion_fail(srv.sim) THEN handle_assertion_fail(srv, causes) ELSE <<>>)
    ELSE <<>>

\* lines 211-217
TerminateEvents(c) ==
    IF c.name = "terminate" THEN <<TerminatedDAPEvent, ExitedDAPEvent(143)>> ELSE <<>>

PauseEvents_step(c) == IF c.name = "pause" THEN <<StoppedDAPEvent("step")>> ELSE <<>>

\* lines 218-223
PauseEvents(c) == IF c.name = "pause" THEN <<StoppedDAPEvent("pause")>> ELSE <<>>

regular_checks_nocount(srv) ==
    [events |-> IF is_finished(srv.sim) THEN <<ExitedDAPEvent(0)>> ELSE <<>>,
     can_step_back |-> can_step_backward(srv.sim)]

regular_checks_nostore(srv) ==
    [events |-> IF is_finished(srv.sim) /\ get_instruction_count(srv.sim) # 0
                THEN <<ExitedDAPEvent(0)>> ELSE <<>>,
     can_step_back |-> srv.can_step_back]

\* regular_checks: the events it sends and the can_step_back it leaves.  The
\* Capabilities event is built and encoded (lines 239-240) but not sent.
regular_checks(srv) ==
    [events |-> IF is_finished(srv.sim) /\ get_instruction_count(srv.sim) # 0
                THEN <<ExitedDAPEvent(0)>> ELSE <<>>,
     can_step_back |-> IF srv.can_step_back # can_step_backward(srv.sim)
                       THEN can_step_backward(srv.sim) ELSE srv.can_step_back]

\* the events sent between the response and regular_checks (lines 155-223)
CommandEvents(c, srv, causes) ==
    InitializedEvents(c) \o EntryEvents(c) \o StopEvents(c, srv, causes)
    \o TerminateEvents(c) \o PauseEvents(c)

HandleClientSends_eventsfirst(c, success, srv, causes) ==
    CommandEvents(c, srv, causes) \o <<HandleResponse(c, success, srv)>>
    \o regular_checks(srv).events

\* everything one iteration of the loop of handle_client writes, in order
HandleClientSends(c, success, srv, causes) ==
    <<HandleResponse(c, success, srv)>> \o CommandEvents(c, srv, causes)
    \o regular_checks(srv).events

\* the session as it stands when a request arrives
Session ==
    Server(sim, source_code, lines_start_at_one, columns_start_at_one, can_step_back, source_file)

\* one completed iteration: request c handled, its handle() leaving the session as srv
CompleteCycle(c, success, srv, causes) ==
    /\ sim' = srv.sim
    /\ source_code' = srv.source_code
    /\ lines_start_at_one' = srv.lines_start_at_one
    /\ columns_start_at_one' = srv.columns_start_at_one
    /\ source_file' = srv.source_file
    /\ cmd' = c
    /\ sent' = HandleClientSends(c, success, srv, causes)
    /\ can_step_back' = regular_checks(srv).can_step_back
    /\ calls' = srv.calls
    /\ UNCHANGED exception_breakpoints
    /\ pc' = "idle"
    /\ UNCHANGED transport

\* the loop is left by an exception raised in handle_command, before any
\* response was written, the session being left as srv
RaisedInHandle(c, srv) ==
    /\ sim' = srv.sim
    /\ source_code' = srv.source_code
    /\ lines_start_at_one' = srv.lines_start_at_one
    /\ columns_start_at_one' = srv.columns_start_at_one
    /\ can_step_back' = srv.can_step_back
    /\ calls' = srv.calls
    /\ UNCHANGED exception_breakpoints
    /\ source_file' = srv.source_file
    /\ cmd' = c
    /\ sent' = <<>>
    /\ pc' = "dead"
    /\ UNCHANGED transport

\* ----------------------------------------------------------------- state
\* nothing received, nothing sent
TransportInit ==
    /\ frames = <<>>
    /\ inbound = <<>>
    /\ data_str = <<>>
    /\ message_str = <<>>
    /\ data = <<>>
    /\ dispatched = <<>>
    /\ payload = <<>>
    /\ wire = <<>>
    /\ peer_seq = 1

Init ==
    /\ sim = EngineState("default", <<>>, 0, FALSE, FALSE)
    /\ can_step_back = FALSE
    /\ lines_start_at_one = TRUE
    /\ columns_start_at_one = TRUE
    /\ source_code = <<>>
    /\ source_file = NoSourceFile
    /\ TransportInit
    /\ cmd = Request("none", FALSE)
    /\ sent = <<>>
    /\ calls = <<>>
    /\ exception_breakpoints = NoExceptionBreakpoints
    /\ pc = "idle"

CausesFor(s) == IF did_assertion_fail(s) THEN CauseLists ELSE {<<>>}

\* ------------------------------------------------- execution operations
ExecutionCalls_stepback(name, stop_on_entry, s) ==
    CASE name = "next" -> <<"step_over_forward">>
      [] name = "stepIn" -> <<"step_forward">>
      [] name = "stepOut" -> <<"step_out_forward">>
      [] name = "continue" -> <<"run_simulation">>
      [] name = "reverseContinue" -> <<"run_simulation_backward">>
      [] name = "stepBack" -> <<"step_over_backward">>
      [] name = "restartFrame" -> <<"step_forward">>
      [] name = "pause" -> <<"pause_simulation">>
      [] name \in EntryCommands -> IF ~stop_on_entry THEN <<"run_simulation">> ELSE <<>>
      [] OTHER -> <<>>

\* the execution operations the handle() of each command invokes, in order,
\* on an engine it finds in state s (for launch and restart: the state after
\* load_code).  restartFrame is the request for a frame id above the stack
\* depth, whose loop of backward step-outs is not entered.
ExecutionCalls(name, stop_on_entry, s) ==
    CASE name = "next" -> <<"step_over_forward">>
      [] name = "stepIn" -> <<"step_forward">>
      [] name = "stepOut" -> <<"step_out_forward">>
      [] name = "continue" -> <<"run_simulation">>
      [] name = "reverseContinue" -> <<"run_simulation_backward">>
      [] name = "stepBack" -> IF can_step_backward(s) THEN <<"step_over_backward">> ELSE <<>>
      [] name = "restartFrame" -> <<"step_forward">>
      [] name = "pause" -> <<"pause_simulation">>
      [] name \in EntryCommands -> IF ~stop_on_entry THEN <<"run_simulation">> ELSE <<>>
      [] OTHER -> <<>>

\* the states one invocation of an execution operation can leave
OperationResults(op, s) ==
    CASE op = "step_over_forward" -> step_over_forward(s)
      [] op = "step_forward" -> step_forward(s)
      [] op = "step_out_forward" -> step_out_forward(s)
      [] op = "run_simulation" -> run_simulation(s)
      [] op = "run_simulation_backward" -> run_simulation_backward(s)
      [] op = "step_over_backward" -> step_over_backward(s)
      [] op = "step_out_backward" -> step_out_backward(s)
      [] op = "pause_simulation" -> {pause_simulation(s)}

\* the states the operations ops, invoked one after the other, can leave
RECURSIVE Invoke(_, _)
Invoke(ops, s) ==
    IF ops = <<>> THEN {s}
    ELSE UNION {Invoke(Tail(ops), t) : t \in OperationResults(Head(ops), s)}

\* --------------------------------------------------------------- actions
\* initialize with adapterID mqtqasm: InitializeDAPMessage.handle
Initialize ==
    \E l1 \in BOOLEAN, c1 \in BOOLEAN :
        /\ pc = "idle"
        /\ CompleteCycle(Request("initialize", FALSE), TRUE,
                         [Session EXCEPT !.columns_start_at_one = c1, !.lines_start_at_one = l1,
                                         !.sim = create_ddsim_simulation_state], <<>>)

\* launch of an existing program file: LaunchDAPMessage.handle
Launch ==
    \E stop \in BOOLEAN, code \in Programs, program \in ProgramPaths :
        /\ pc = "idle"
        /\ Usable(sim)
        /\ \E s2 \in Invoke(ExecutionCalls("launch", stop, load_code(sim, code)), load_code(sim, code)) :
             \E causes \in CausesFor(s2) :
                CompleteCycle(Request("launch", stop), TRUE,
                              [Session EXCEPT !.source_code = code, !.sim = s2,
                                              !.source_file = SourceFileOf(program),
                                              !.calls = ExecutionCalls("launch", stop, s2)], causes)

\* launch of a program the engine rejects: load_code raises RuntimeError,
\* handle returns the failure response, the iteration goes on
LaunchRejected ==
    \E stop \in BOOLEAN, code \in Programs :
        /\ pc = "idle"
        /\ Usable(sim)
        /\ CompleteCycle(Request("launch", stop), FALSE,
                         [Session EXCEPT !.source_code = code, !.sim = load_code_rejected(sim)], <<>>)

\* restart with an existing program file: RestartDAPMessage.handle
Restart ==
    \E stop \in BOOLEAN, code \in Programs, program \in ProgramPaths :
        /\ pc = "idle"
        /\ Usable(sim)
        /\ LET s1 == load_code(reset_simulation(sim), code)
           IN \E s2 \in Invoke(ExecutionCalls("restart", stop, s1), s1) :
                \E causes \in CausesFor(s2) :
                    CompleteCycle(Request("restart", stop), TRUE,
                                  [Session EXCEPT !.source_code = code, !.sim = s2,
                                                  !.source_file = SourceFileOf(program),
                                                  !.calls = ExecutionCalls("restart", stop, s2)], causes)

\* restart of a program the engine rejects: load_code raises RuntimeError,
\* which handle does not catch
RestartRejected ==
    \E stop \in BOOLEAN, code \in Programs :
        /\ pc = "idle"
        /\ Usable(sim)
        /\ RaisedInHandle(Request("restart", stop),
                          [Session EXCEPT !.source_code = code,
                                          !.sim = load_code_rejected(reset_simulation(sim))])

\* the engine after the handle() of a stepping command
StepResults(name, s) == Invoke(ExecutionCalls(name, FALSE, s), s)

\* next, stepIn, stepOut, stepBack, continue, reverseContinue, restartFrame
Step ==
    \E name \in StepCommands :
        /\ pc = "idle"
        /\ Usable(sim)
        /\ \E s2 \in StepResults(name, sim) :
             \E causes \in CausesFor(s2) :
                CompleteCycle(Request(name, FALSE), TRUE,
                              [Session EXCEPT !.sim = s2, !.calls = ExecutionCalls(name, FALSE, sim)],
                              causes)

\* PauseDAPMessage.handle
Pause ==
    /\ pc = "idle"
    /\ Usable(sim)
    /\ \E s2 \in Invoke(ExecutionCalls("pause", FALSE, sim), sim) :
         CompleteCycle(Request("pause", FALSE), TRUE,
                       [Session EXCEPT !.sim = s2, !.calls = ExecutionCalls("pause", FALSE, sim)], <<>>)

\* TerminateDAPMessage.handle and DisconnectDAPMessage.handle: the handle is
\* released, then the iteration goes on to regular_checks with that handle
Release ==
    \E name \in {"terminate", "disconnect"} :
        /\ pc = "idle"
        /\ Usable(sim)
        /\ CompleteCycle(Request(name, FALSE), TRUE,
                         [Session EXCEPT !.sim = destroy_ddsim_simulation_state(sim)], <<>>)

\* threads, configurationDone: DAPMessage.handle plus a constant body
Plain ==
    \E name \in PlainCommands :
        /\ pc = "idle"
        /\ Usable(sim)
        /\ CompleteCycle(Request(name, FALSE), TRUE, Session, <<>>)

\* whether the text of the current instruction holds assert-ent, assert-sup
\* or assert-eq: it does when the engine reports that assertion as failed,
\* it may or may not otherwise, and there is no current instruction once
\* the program has finished
CurrentIsAssertion(s) ==
    IF s.ip >= get_instruction_count(s) THEN {FALSE}
    ELSE IF did_assertion_fail(s) THEN {TRUE}
    ELSE BOOLEAN

\* ExceptionInfoDAPMessage.handle: next() over the assertion names found in
\* the current instruction raises StopIteration when there is none, which
\* nothing catches.  (The body of the response, which describes the
\* assertion, is not represented.)
ExceptionInfo ==
    /\ pc = "idle"
    /\ Usable(sim)
    /\ \E found \in CurrentIsAssertion(sim) :
         IF found THEN CompleteCycle(Request("exceptionInfo", FALSE), TRUE, Session, <<>>)
         ELSE RaisedInHandle(Request("exceptionInfo", FALSE), Session)

\* setBreakpoints after a launch: SetBreakpointsDAPMessage.handle.  With a
\* line past the source among the breakpoints of the loaded file,
\* code_coordinates_to_pos raises IndexError, which nothing catches: the
\* table was cleared and the breakpoints before that one were set.
SetBreakpoints ==
    /\ pc = "idle"
    /\ Usable(sim)
    /\ source_file # NoSourceFile
    /\ \E source \in RequestSources :
         \E bps \in BreakpointLists(source) :
           \E c \in {BreakpointsRequest(source, bps)} :
             \E r \in {SetBreakpointsHandle(c, Session)} :
               IF r.raised THEN RaisedInHandle(c, r.srv)
               ELSE CompleteCycle(c, TRUE, r.srv, <<>>)

\* setBreakpoints before any launch: server.source_file is not set, line 43
\* raises AttributeError
SetBreakpointsBeforeLaunch ==
    /\ pc = "idle"
    /\ source_file = NoSourceFile
    /\ \E source \in RequestSources :
         \E bps \in BreakpointLists(source) :
           RaisedInHandle(BreakpointsRequest(source, bps), Session)

\* validate() raises ValueError in the constructor: initialize with another
\* adapter ID, launch or restart without an existing program
ValidationFails_inhandle ==
    \E name \in {"initialize", "launch", "restart"}, stop \in BOOLEAN :
        /\ pc = "idle"
        /\ name = "initialize" => ~stop
        /\ RaisedInHandle([Request(name, stop) EXCEPT !.valid = FALSE],
                          [Session EXCEPT !.sim = create_ddsim_simulation_state])

ValidationFails ==
    \E name \in {"initialize", "launch", "restart"}, stop \in BOOLEAN :
        /\ pc = "idle"
        /\ name = "initialize" => ~stop
        /\ RaisedInHandle([Request(name, stop) EXCEPT !.valid = FALSE], Session)

Unsupported_answered ==
    /\ pc = "idle"
    /\ CompleteCycle(Request("unsupported", FALSE), FALSE, Session, <<>>)

\* handle_command raises RuntimeError for a command that is not registered
Unsupported ==
    /\ pc = "idle"
    /\ RaisedInHandle(Request("unsupported", FALSE), Session)

\* an engine operation of handle() fails on a handle that is not live
EngineFaultInHandle ==
    \E name \in supported_messages \ ({"initialize", "setBreakpoints", "variables"} \cup PlainCommands \cup EntryCommands) :
        /\ pc = "idle"
        /\ sim.handle # "live"
        /\ RaisedInHandle(Request(name, FALSE),
                          [Session EXCEPT !.calls = ExecutionCalls(name, FALSE, sim)])

\* the same for launch and restart, which have stored the text by then
EngineFaultInLoad ==
    \E name \in EntryCommands, stop \in BOOLEAN, code \in Programs :
        /\ pc = "idle"
        /\ sim.handle # "live"
        /\ RaisedInHandle(Request(name, stop), [Session EXCEPT !.source_code = code])

\* handle() did not fail, but the first engine query of regular_checks does,
\* on a handle that is not live: the response and the command's own events
\* have been written by then
EngineFaultInChecks ==
    \E name \in PlainCommands \cup {"terminate", "disconnect"} :
        LET c == Request(name, FALSE)
            s2 == IF name \in PlainCommands THEN sim ELSE destroy_ddsim_simulation_state(sim)
        IN /\ pc = "idle"
           /\ s2.handle # "live"
           /\ name \in {"terminate", "disconnect"} => sim.handle = "live"
           /\ sim' = s2
           /\ cmd' = c
           /\ sent' = <<HandleResponse(c, TRUE, Session)>> \o CommandEvents(c, Session, <<>>)
           /\ pc' = "dead"
           /\ calls' = <<>>
           /\ UNCHANGED exception_breakpoints
           /\ UNCHANGED <<can_step_back, lines_start_at_one, columns_start_at_one, source_code,
                          source_file, transport>>

Next ==
    \/ Initialize
    \/ Launch
    \/ LaunchRejected
    \/ Restart
    \/ RestartRejected
    \/ Step
    \/ Pause
    \/ Release
    \/ Plain
    \/ ExceptionInfo
    \/ ValidationFails
    \/ Unsupported
    \/ EngineFaultInHandle
    \/ EngineFaultInLoad
    \/ EngineFaultInChecks

Spec == Init /\ [][Next]_vars

\* ------------------------------------------ sequence-number behaviours
\* The same connection, the peer numbering its requests with any seq.
SeqInit ==
    \E n \in 1..MaxSeq :
        /\ sim = EngineState("default", <<>>, 0, FALSE, FALSE)
        /\ can_step_back = FALSE
        /\ lines_start_at_one = TRUE
        /\ columns_start_at_one = TRUE
        /\ source_code = <<>>
        /\ source_file = NoSourceFile
        /\ peer_seq = n
        /\ cmd = Request("none", FALSE)
        /\ sent = <<>>
        /\ calls = <<>>
        /\ exception_breakpoints = NoExceptionBreakpoints
        /\ pc = "idle"
        /\ frames = <<>>
        /\ inbound = <<>>
        /\ data_str = <<>>
        /\ message_str = <<>>
        /\ data = <<>>
        /\ dispatched = <<>>
        /\ payload = <<>>
        /\ wire = <<>>

SeqSpec == SeqInit /\ [][Next]_vars

\* ------------------------------------------------- coordinate behaviours
\* The session after initialize (any indexing convention) and a launch with
\* stop-on-entry of any text; from there the program is stepped, and every
\* failing assertion is reported at the line and column of its instruction.
CoordInit ==
    \E l1 \in BOOLEAN, c1 \in BOOLEAN, code \in Texts :
        LET c == Request("launch", TRUE)
            srv == Server(load_code(create_ddsim_simulation_state, code), code, l1, c1, FALSE,
                          SourceFileOf(MainProgram))
        IN /\ sim = srv.sim
           /\ source_code = code
           /\ source_file = srv.source_file
           /\ lines_start_at_one = l1
           /\ columns_start_at_one = c1
           /\ can_step_back = FALSE
           /\ TransportInit
           /\ cmd = c
           /\ sent = HandleClientSends(c, TRUE, srv, <<>>)
           /\ calls = <<>>
           /\ exception_breakpoints = NoExceptionBreakpoints
           /\ pc = "idle"

CoordNext == Step \/ Plain

CoordSpec == CoordInit /\ [][CoordNext]_vars

\* -------------------------------------------------- variables behaviours
\* the reference 2 of the quantum scope is asked for in none of these behaviours
References(s) == {0, 1, 3} \cup 10..(10 + get_num_classical_variables(s))
Filters == {"", "named", "indexed"}

VariablesRequest(reference, filter_value) ==
    [Request("variables", FALSE) EXCEPT !.reference = reference, !.filter_value = filter_value]

Variables ==
    /\ pc = "idle"
    /\ Usable(sim)
    /\ \E reference \in References(sim), filter_value \in Filters :
         IF reference >= 10 /\ ChildrenRaises(sim, reference - 10, filter_value)
         THEN RaisedInHandle(VariablesRequest(reference, filter_value), Session)
         ELSE CompleteCycle(VariablesRequest(reference, filter_value), TRUE, Session, <<>>)

Declarations == UNION {[1..k -> 0..MaxBits] : k \in 0..MaxRegisters}

\* The session after initialize and a launch with stop-on-entry of a program
\* with any declarations; from there its variables are asked for.
VariablesInit ==
    \E l1 \in BOOLEAN, c1 \in BOOLEAN, sizes \in Declarations :
        LET c == Request("launch", TRUE)
            srv == Server([load_code(create_ddsim_simulation_state, <<"c">>)
                              EXCEPT !.classical = ClassicalLayout(sizes, 1)],
                          <<"c">>, l1, c1, FALSE, SourceFileOf(MainProgram))
        IN /\ sim = srv.sim
           /\ source_code = srv.source_code
           /\ source_file = srv.source_file
           /\ lines_start_at_one = l1
           /\ columns_start_at_one = c1
           /\ can_step_back = FALSE
           /\ TransportInit
           /\ cmd = c
           /\ sent = HandleClientSends(c, TRUE, srv, <<>>)
           /\ calls = <<>>
           /\ exception_breakpoints = NoExceptionBreakpoints
           /\ pc = "idle"

VariablesSpec == VariablesInit /\ [][Variables]_vars

\* ---------------------------------------------- quantum state behaviours
\* a variables request for the reference 2 of the Quantum State scope
QuantumRequest(start, count, filter_value) ==
    VariablesRequest(2, filter_value) @@ [start |-> start, count |-> count]

\* _get_quantum_state_scope: the namedVariables of the Quantum State scope
QuantumScopeNamedVariables(s) == 2 ^ get_num_qubits(s)

\* the bitstrings the handler passes to get_amplitude_bitstring that have
\* more digits than the program has qubits
OverlongBitstrings(msgs, s) ==
    {k \in 1..Len(msgs) : msgs[k].type = "complex" /\ Len(msgs[k].name) > get_num_qubits(s)}

QuantumVariables ==
    /\ pc = "idle"
    /\ \E start \in 0..MaxStart, count \in 0..MaxCount, filter_value \in Filters :
         CompleteCycle(QuantumRequest(start, count, filter_value), TRUE, Session, <<>>)

\* the engine refuses a bitstring that names no basis state of the program:
\* the exception leaves handle() and the loop
QuantumVariablesRaises ==
    /\ pc = "idle"
    /\ \E start \in 0..MaxStart, count \in 0..MaxCount, filter_value \in Filters :
         \E c \in {QuantumRequest(start, count, filter_value)} :
            /\ OverlongBitstrings(VariablesHandle(c, Session), sim) # {}
            /\ RaisedInHandle(c, Session)

\* the session after initialize and a launch with stopOnEntry of a program
\* with any number of qubits
QuantumInit ==
    \E l1 \in BOOLEAN, c1 \in BOOLEAN, num_qubits \in 1..MaxQubits, code \in Programs :
        LET c == Request("launch", TRUE)
            srv == Server(load_code(create_ddsim_simulation_state, code) @@ [num_qubits |-> num_qubits],
                          code, l1, c1, FALSE, SourceFileOf(MainProgram))
        IN /\ sim = srv.sim
           /\ source_code = srv.source_code
           /\ source_file = srv.source_file
           /\ lines_start_at_one = l1
           /\ columns_start_at_one = c1
           /\ can_step_back = FALSE
           /\ TransportInit
           /\ cmd = c
           /\ sent = HandleClientSends(c, TRUE, srv, <<>>)
           /\ calls = <<>>
           /\ exception_breakpoints = NoExceptionBreakpoints
           /\ pc = "idle"

QuantumNext == QuantumVariables \/ QuantumVariablesRaises

QuantumSpec == QuantumInit /\ [][QuantumNext]_vars

\* ------------------------------------------- exception filter behaviours
\* get_exception_filters: the ids of the filters the server offers
get_exception_filters == {"all", "ent", "sup", "eq"}

SetExceptionBreakpointsRequest(filters) ==
    Request("setExceptionBreakpoints", FALSE) @@ [filters |-> filters]

\* SetExceptionBreakpointsDAPMessage.handle: the filters are recorded, the
\* body holds one verified breakpoint per filter; then the rest of the
\* iteration of handle_client
SetExceptionBreakpoints ==
    /\ pc = "idle"
    /\ \E filters \in SUBSET get_exception_filters :
         /\ exception_breakpoints' = filters
         /\ cmd' = SetExceptionBreakpointsRequest(filters)
         /\ sent' = <<[Response("setExceptionBreakpoints", TRUE)
                          EXCEPT !.body = [verified |-> [f \in filters |-> TRUE]],
                                 !.request_seq = cmd'.seq]>>
                    \o CommandEvents(cmd', Session, <<>>) \o regular_checks(Session).events
         /\ can_step_back' = regular_checks(Session).can_step_back
         /\ calls' = <<>>
         /\ UNCHANGED <<sim, lines_start_at_one, columns_start_at_one, source_code, source_file,
                        pc, transport>>

\* the session after initialize and a launch with stopOnEntry of any program
ExceptionInit ==
    \E code \in Programs :
        LET c == Request("launch", TRUE)
            srv == Server(load_code(create_ddsim_simulation_state, code), code, TRUE, TRUE, FALSE,
                          SourceFileOf(MainProgram))
        IN /\ sim = srv.sim
           /\ source_code = srv.source_code
           /\ source_file = srv.source_file
           /\ lines_start_at_one = TRUE
           /\ columns_start_at_one = TRUE
           /\ can_step_back = FALSE
           /\ TransportInit
           /\ cmd = c
           /\ sent = HandleClientSends(c, TRUE, srv, <<>>)
           /\ calls = <<>>
           /\ exception_breakpoints = NoExceptionBreakpoints
           /\ pc = "idle"

ExceptionNext == SetExceptionBreakpoints \/ Step

ExceptionSpec == ExceptionInit /\ [][ExceptionNext]_vars

\* ------------------------------------------------ restartFrame behaviours
\* the frame ids a stackTrace response holds: depth - i for the i-th of depth frames
StackFrameIds(s) == {get_stack_depth(s) - i : i \in 0..(get_stack_depth(s) - 1)}

RestartFrameRequest(frame) == Request("restartFrame", FALSE) @@ [frame |-> frame]

\* a restartFrame request for a frame of the stack arrives: handle() is entered
RestartFrameArrives ==
    /\ pc = "idle"
    /\ sim.handle = "live"
    /\ \E frame \in StackFrameIds(sim) :
         /\ cmd' = RestartFrameRequest(frame)
         /\ sent' = <<>>
         /\ calls' = <<>>
         /\ UNCHANGED exception_breakpoints
         /\ pc' = "handling"
         /\ UNCHANGED <<sim, can_step_back, lines_start_at_one, columns_start_at_one, source_code,
                        source_file, transport>>

\* lines 40-41: one pass of the loop
RestartFrameStepsOut ==
    /\ pc = "handling"
    /\ get_stack_depth(sim) >= cmd.frame
    /\ \E s2 \in step_out_backward(sim) :
         /\ sim' = s2
         /\ calls' = IF Len(calls) < MaxCalls THEN Append(calls, "step_out_backward") ELSE calls
         /\ UNCHANGED exception_breakpoints
         /\ UNCHANGED <<cmd, sent, pc, can_step_back, lines_start_at_one, columns_start_at_one,
                        source_code, source_file, transport>>

\* the same pass when the engine refuses to step backward from the start of
\* the program and step_out_backward raises
RestartFrameFaults ==
    /\ pc = "handling"
    /\ get_stack_depth(sim) >= cmd.frame
    /\ ~can_step_backward(sim)
    /\ pc' = "dead"
    /\ UNCHANGED <<sim, cmd, sent, calls, exception_breakpoints, can_step_back, lines_start_at_one,
                   columns_start_at_one,
                   source_code, source_file, transport>>

\* lines 42-45: the loop is left, one step forward, the response, then the
\* rest of the iteration of handle_client
RestartFrameLeaves ==
    /\ pc = "handling"
    /\ get_stack_depth(sim) < cmd.frame
    /\ \E s2 \in step_forward(sim) :
         \E causes \in CausesFor(s2) :
            CompleteCycle(cmd, TRUE,
                          [Session EXCEPT !.sim = s2,
                                          !.calls = IF Len(calls) < MaxCalls
                                                    THEN Append(calls, "step_forward") ELSE calls],
                          causes)

\* The session after initialize and a launch, the program stopped at any of
\* its instructions inside any number of nested calls.
RestartFrameInit ==
    \E l1 \in BOOLEAN, c1 \in BOOLEAN, code \in Programs, depth \in 1..MaxDepth :
      \E ip \in 0..Len(InstructionStarts(code, 1)) :
        LET c == Request("launch", TRUE)
            srv == Server([load_code(create_ddsim_simulation_state, code)
                              EXCEPT !.ip = ip, !.depth = depth],
                          code, l1, c1, ip > 0, SourceFileOf(MainProgram))
        IN /\ sim = srv.sim
           /\ source_code = code
           /\ source_file = srv.source_file
           /\ lines_start_at_one = l1
           /\ columns_start_at_one = c1
           /\ can_step_back = srv.can_step_back
           /\ TransportInit
           /\ cmd = c
           /\ sent = <<HandleResponse(c, TRUE, srv)>>
           /\ calls = <<>>
           /\ exception_breakpoints = NoExceptionBreakpoints
           /\ pc = "idle"

RestartFrameNext ==
    RestartFrameArrives \/ RestartFrameStepsOut \/ RestartFrameFaults \/ RestartFrameLeaves

\* an iteration of the loop that can be taken is taken
RestartFrameSpec == RestartFrameInit /\ [][RestartFrameNext]_vars /\ WF_vars(RestartFrameNext)

\* ---------------------------------------------------- grayOut behaviours
\* get_diagnostics().get_data_dependencies(instruction): the engine state
\* carries, in the field dependencies, the set the diagnostics report for
\* the instruction the program stopped at
get_data_dependencies(s, instruction) == s.dependencies

WithDiagnostics(s, dependencies) == s @@ [dependencies |-> dependencies]

\* the loop of handle_assertion_fail that grays out every instruction alike
RECURSIVE GrayOutLoop_all(_, _, _)
GrayOutLoop_all(s, dependencies, i) ==
    IF i >= get_instruction_count(s) THEN <<>>
    ELSE <<get_instruction_position(s, i)>> \o GrayOutLoop_all(s, dependencies, i + 1)

\* lines 270-274: for i in range(instruction_count), skipping the dependencies
RECURSIVE GrayOutLoop(_, _, _)
GrayOutLoop(s, dependencies, i) ==
    IF i >= get_instruction_count(s) THEN <<>>
    ELSE (IF i \in dependencies THEN <<>> ELSE <<get_instruction_position(s, i)>>)
         \o GrayOutLoop(s, dependencies, i + 1)

\* lines 267-274: gray_out_areas as handle_assertion_fail leaves it
gray_out_areas(s) ==
    GrayOutLoop(s, get_data_dependencies(s, get_current_instruction(s)), 0)

\* GrayOutDAPEvent.encode: the body of the event
GrayOutBody(ranges, source) == [ranges |-> ranges, source |-> source]

\* the messages of one iteration, each GrayOut event with its body
WithGrayOutBody(msgs, srv) ==
    [k \in 1..Len(msgs) |->
        IF msgs[k].name = "grayOut"
        THEN [msgs[k] EXCEPT !.body = GrayOutBody(gray_out_areas(srv.sim), srv.source_file)]
        ELSE msgs[k]]

\* a stepping command; when it ends at a failed assertion the diagnostics
\* report any set of instructions as its data dependencies
GrayOutStep ==
    \E name \in StepCommands :
        /\ pc = "idle"
        /\ \E s2 \in StepResults(name, sim) :
             \E dependencies \in (IF did_assertion_fail(s2)
                                  THEN SUBSET (0..(get_instruction_count(s2) - 1)) ELSE {{}}) :
                \E srv \in {[Session EXCEPT !.sim = [s2 EXCEPT !.dependencies = dependencies],
                                            !.calls = ExecutionCalls(name, FALSE, sim)]} :
                    /\ sim' = srv.sim
                    /\ cmd' = Request(name, FALSE)
                    /\ \E msgs \in {HandleClientSends(cmd', TRUE, srv, <<>>)} :
                         sent' = WithGrayOutBody(msgs, srv)
                    /\ can_step_back' = regular_checks(srv).can_step_back
                    /\ calls' = srv.calls
                    /\ UNCHANGED exception_breakpoints
                    /\ UNCHANGED <<lines_start_at_one, columns_start_at_one, source_code, source_file,
                                   pc, transport>>

\* the session after initialize and a launch with stopOnEntry of any program text
GrayOutInit ==
    /\ lines_start_at_one = TRUE
    /\ columns_start_at_one = TRUE
    /\ TransportInit
    /\ \E code \in Texts :
         /\ sim = WithDiagnostics(load_code(create_ddsim_simulation_state, code), {})
         /\ source_code = code
    /\ source_file = SourceFileOf(MainProgram)
    /\ can_step_back = FALSE
    /\ cmd = Request("launch", TRUE)
    /\ sent = <<HandleResponse(cmd, TRUE, Session)>> \o CommandEvents(cmd, Session, <<>>)
    /\ calls = <<>>
    /\ exception_breakpoints = NoExceptionBreakpoints
    /\ pc = "idle"

GrayOutNext == GrayOutStep

GrayOutSpec == GrayOutInit /\ [][GrayOutNext]_vars

\* ------------------------------------------------- breakpoint behaviours
\* The session after initialize (any indexing convention), before a launch
\* or after a launch with stop-on-entry of any program; from there
\* breakpoints are requested, for the loaded file and for others.
BreakpointInit ==
    /\ TransportInit
    /\ \E l1 \in BOOLEAN, c1 \in BOOLEAN, launched \in BOOLEAN, code \in Programs :
         \E c \in {IF launched THEN Request("launch", TRUE) ELSE Request("initialize", FALSE)},
            srv \in {IF launched
                     THEN Server(load_code(create_ddsim_simulation_state, code), code, l1, c1, FALSE,
                                 SourceFileOf(MainProgram))
                     ELSE Server(create_ddsim_simulation_state, <<>>, l1, c1, FALSE, NoSourceFile)} :
             /\ sim = srv.sim
             /\ source_code = srv.source_code
             /\ source_file = srv.source_file
             /\ lines_start_at_one = l1
             /\ columns_start_at_one = c1
             /\ can_step_back = FALSE
             /\ cmd = c
             /\ sent = HandleClientSends(c, TRUE, srv, <<>>)
             /\ calls = <<>>
             /\ exception_breakpoints = NoExceptionBreakpoints
             /\ pc = "idle"

BreakpointNext ==
    \/ SetBreakpoints
    \/ SetBreakpointsBeforeLaunch

BreakpointSpec == BreakpointInit /\ [][BreakpointNext]_vars

\* ---------------------------------------------------- framing behaviours
\* The inbound stream is a sequence of tokens.  "CL" is the header text
\* Content-Length: N, "sep" the CR LF CR LF that ends the header.  A body is
\* one JSON object without line breaks: "{", then characters of its string
\* values, then "}".  Of those characters "ob" and "cb" are braces and "cl"
\* is the text Content-Length: inside a string value, "x" is any other.
BodyChars == {"x", "ob", "cb", "cl"}
Bodies == {<<"{">> \o t \o <<"}">> : t \in UNION {[1..k -> BodyChars] : k \in 0..MaxBody}}
FrameLists == UNION {[1..k -> Bodies] : k \in 1..MaxFrames}

\* the bytes of the frames from the i-th on
RECURSIVE Stream(_, _)
Stream(fs, i) == IF i > Len(fs) THEN <<>> ELSE <<"CL", "sep">> \o fs[i] \o Stream(fs, i + 1)

\* str.count("{") and str.count("}")
CountOpen(str) == Cardinality({i \in 1..Len(str) : str[i] \in {"{", "ob"}})
CountClose(str) == Cardinality({i \in 1..Len(str) : str[i] \in {"}", "cb"}})

\* str.find("Content-Length:", 1): the 0-based index of the first match that
\* is not at index 0, or -1
FindContentLength(str) ==
    LET hits == {i \in 2..Len(str) : str[i] \in {"CL", "cl"}}
    IN IF hits = {} THEN -1 ELSE (CHOOSE i \in hits : \A j \in hits : i <= j) - 1

\* str.split("\n")[-1]: what follows the last line break
LastLine(str) ==
    LET seps == {i \in 1..Len(str) : str[i] = "sep"}
    IN IF seps = {} THEN str
       ELSE SubSeq(str, (CHOOSE i \in seps : \A j \in seps : j <= i) + 1, Len(str))

\* json.loads returns for exactly the texts that are one JSON object
json_loads_returns(str) ==
    /\ Len(str) >= 2
    /\ str[1] = "{"
    /\ str[Len(str)] = "}"
    /\ \A i \in 2..(Len(str) - 1) : str[i] \in BodyChars

\* what recv can return when the loop calls it: any non-empty prefix of what
\* the peer has sent, or nothing once the peer has sent everything and
\* closed; <<>> also stands for "recv is not called" in an iteration that skips it
Receives == message_str = <<>> \/ data_str = <<>>
Chunks ==
    IF ~Receives \/ inbound = <<>> THEN {<<>>}
    ELSE {SubSeq(inbound, 1, k) : k \in 1..Len(inbound)}

\* lines 134-147 for a recv that returns chunk: the buffers as the iteration
\* leaves them, and the last line of the message it cut out
ReadStep(chunk) ==
    LET buffer == IF Receives THEN data_str \o chunk ELSE data_str
        first_end == FindContentLength(buffer)
        whole == first_end = -1 /\ CountOpen(buffer) = CountClose(buffer)
    IN [data |-> IF Receives THEN chunk ELSE data,
        complete |-> first_end # -1 \/ whole,
        message_str |-> IF first_end # -1 THEN SubSeq(buffer, 1, first_end)
                        ELSE IF whole THEN buffer ELSE <<>>,
        data_str |-> IF first_end # -1 THEN SubSeq(buffer, first_end + 1, Len(buffer))
                     ELSE IF whole THEN <<>> ELSE buffer,
        last |-> LastLine(IF first_end # -1 THEN SubSeq(buffer, 1, first_end) ELSE buffer)]

\* lines 144-150: how the iteration goes on after ReadStep
Outcome(r) ==
    IF ~r.complete THEN "continue"
    ELSE IF r.data = <<>> THEN "break"
    ELSE IF json_loads_returns(r.last) THEN "dispatch"
    ELSE "raise"

\* one iteration of the loop of handle_client with the given outcome; the
\* handling of a dispatched payload is left out
ReadIteration(outcome) ==
    /\ \E chunk \in Chunks :
         \E r \in {ReadStep(chunk)} :
            /\ Outcome(r) = outcome
            /\ inbound' = SubSeq(inbound, Len(chunk) + 1, Len(inbound))
            /\ data' = r.data
            /\ data_str' = r.data_str
            /\ message_str' = r.message_str
            /\ dispatched' = IF outcome = "dispatch" THEN Append(dispatched, r.last) ELSE dispatched
    /\ pc' = CASE outcome = "raise" -> "dead"
              [] outcome = "break" -> "returned"
              [] OTHER -> "idle"
    /\ UNCHANGED <<sim, can_step_back, lines_start_at_one, columns_start_at_one, source_code,
                   source_file, cmd, sent, calls, exception_breakpoints, frames, payload, wire, peer_seq>>

\* the message is decoded and handed to handle_command
ReadDispatches == pc = "idle" /\ ReadIteration("dispatch")
\* lines 145-147: braces unbalanced, the loop goes on to read more
ReadIncomplete == pc = "idle" /\ ReadIteration("continue")
\* json.loads raises JSONDecodeError, a ValueError, which nothing catches
ReadRaises == pc = "idle" /\ ReadIteration("raise")
\* lines 148-149: the last recv returned nothing
ReadReturns == pc = "idle" /\ ReadIteration("break")

\* a connection on which the peer sends a list of well-formed frames
FrameInit ==
    \E fs \in FrameLists :
        /\ sim = EngineState("default", <<>>, 0, FALSE, FALSE)
        /\ can_step_back = FALSE
        /\ lines_start_at_one = TRUE
        /\ columns_start_at_one = TRUE
        /\ source_code = <<>>
        /\ source_file = NoSourceFile
        /\ peer_seq = 1
        /\ cmd = Request("none", FALSE)
        /\ sent = <<>>
        /\ calls = <<>>
        /\ exception_breakpoints = NoExceptionBreakpoints
        /\ pc = "idle"
        /\ frames = fs
        /\ inbound = Stream(fs, 1)
        /\ data_str = <<>>
        /\ message_str = <<>>
        /\ data = <<>>
        /\ dispatched = <<>>
        /\ payload = <<>>
        /\ wire = <<>>

FrameNext == ReadDispatches \/ ReadIncomplete \/ ReadRaises \/ ReadReturns

FrameSpec == FrameInit /\ [][FrameNext]_vars

\* A connection the peer closes after any part of the stream of its frames:
\* between two frames, inside a header, or inside a body.  Once that part
\* has been received every recv returns zero bytes.  The loop goes on
\* iterating for as long as it has not left (weak fairness of its steps).
CloseInit ==
    \E fs \in FrameLists :
      \E cut \in 0..Len(Stream(fs, 1)) :
        /\ sim = EngineState("default", <<>>, 0, FALSE, FALSE)
        /\ can_step_back = FALSE
        /\ lines_start_at_one = TRUE
        /\ columns_start_at_one = TRUE
        /\ source_code = <<>>
        /\ source_file = NoSourceFile
        /\ peer_seq = 1
        /\ cmd = Request("none", FALSE)
        /\ sent = <<>>
        /\ calls = <<>>
        /\ exception_breakpoints = NoExceptionBreakpoints
        /\ pc = "idle"
        /\ frames = fs
        /\ inbound = SubSeq(Stream(fs, 1), 1, cut)
        /\ data_str = <<>>
        /\ message_str = <<>>
        /\ data = <<>>
        /\ dispatched = <<>>
        /\ payload = <<>>
        /\ wire = <<>>

CloseSpec == CloseInit /\ [][FrameNext]_vars /\ WF_vars(FrameNext)

\* ---------------------------------------------------- sending behaviours
\* The characters of the string values of an outgoing message: "a" an ASCII
\* letter, "q" a double quote, "LF" a line feed, "u2" and "u3" characters
\* whose UTF-8 encoding has two and three bytes (U+00E9 and U+25CB).
TextChars == {"a", "q", "LF", "u2", "u3"}
MessageTexts == UNION {[1..k -> TextChars] : k \in 0..MaxText}

\* in a JSON text "bs" is a backslash
RECURSIVE Concat(_)
Concat(ss) == IF ss = <<>> THEN <<>> ELSE Head(ss) \o Concat(Tail(ss))

json_dumps_raw(text) ==
    <<"{">>
    \o Concat([i \in 1..Len(text) |->
                  CASE text[i] = "q" -> <<"bs", "q">>
                    [] text[i] = "LF" -> <<"bs", "n">>
                    [] OTHER -> <<text[i]>>])
    \o <<"}">>

\* json.dumps as handle_client calls it (ensure_ascii left at its default):
\* quotes and control characters are escaped, every non-ASCII character is
\* written as a backslash, u and four hexadecimal digits
json_dumps(text) ==
    <<"{">>
    \o Concat([i \in 1..Len(text) |->
                  CASE text[i] = "q" -> <<"bs", "q">>
                    [] text[i] = "LF" -> <<"bs", "n">>
                    [] text[i] = "u2" -> <<"bs", "u", "0", "0", "e", "9">>
                    [] text[i] = "u3" -> <<"bs", "u", "2", "5", "c", "b">>
                    [] OTHER -> <<text[i]>>])
    \o <<"}">>

\* msg.replace("\n", "\r\n")
ReplaceLF(msg) ==
    Concat([i \in 1..Len(msg) |-> IF msg[i] = "LF" THEN <<"CR", "LF">> ELSE <<msg[i]>>])

\* str.encode("utf-8"): the bytes of each character, in order
Utf8(msg) ==
    Concat([i \in 1..Len(msg) |->
              CASE msg[i] = "u2" -> <<"u2.1", "u2.2">>
                [] msg[i] = "u3" -> <<"u3.1", "u3.2", "u3.3">>
                [] OTHER -> <<msg[i]>>])

\* send_message: the bytes handed to sendall; the header is the text
\* Content-Length:, the length in decimal, CR LF CR LF
send_message(msg) ==
    LET length == Len(ReplaceLF(msg))
    IN <<"Content-Length:", length, "CR", "LF", "CR", "LF">> \o Utf8(ReplaceLF(msg))

\* lines 152-153 (and the same two lines for every event): a message with
\* the given text in its string values is serialised and sent
Send ==
    \E text \in MessageTexts :
        /\ payload' = json_dumps(text)
        /\ wire' = send_message(json_dumps(text))
        /\ UNCHANGED <<sim, can_step_back, lines_start_at_one, columns_start_at_one, source_code,
                       source_file, cmd, sent, calls,
                       exception_breakpoints, pc, frames, inbound, data_str,
                       message_str, data, dispatched, peer_seq>>

SendNext == Send

SendSpec == Init /\ [][SendNext]_vars

TypeOK ==
    /\ sim.handle \in {"default", "live", "released"}
    /\ sim.code \in Texts \cup Programs
    /\ sim.ip \in 0..get_instruction_count(sim)
    /\ (sim.failed \/ sim.bphit) => sim.ip < get_instruction_count(sim)
    /\ can_step_back \in BOOLEAN
    /\ source_code \in Texts \cup Programs
    /\ source_file \in {NoSourceFile} \cup {SourceFileOf(p) : p \in ProgramPaths}
    /\ sim.breakpoints \subseteq 0..(get_instruction_count(sim) - 1)
    /\ pc \in {"idle", "handling", "dead", "returned"}
    /\ peer_seq \in 1..MaxSeq


\* ---------------------------------------------------- reading the wire log
IsStopped(m) == m.type = "event" /\ m.name = "stopped"
IsExited(m, code) == m.type = "event" /\ m.name = "exited" /\ m.code = code
IsNamed(m, name) == m.type = "event" /\ m.name = name

\* the positions of sent that hold a Stopped event, an Exited(code) event, an event called name
StoppedAt == {i \in 1..Len(sent) : IsStopped(sent[i])}
ExitedAt(code) == {i \in 1..Len(sent) : IsExited(sent[i], code)}
NamedAt(name) == {i \in 1..Len(sent) : IsNamed(sent[i], name)}

\* the place of an event in the rule order of the event derivation; 0 for a
\* message that no rule of that order produces (the response, Initialized)
RuleOf(m) ==
    IF m.type # "event" THEN 0
    ELSE IF m.name = "stopped" /\ m.detail = "entry" THEN 1
    ELSE IF m.name = "stopped" /\ m.detail \in {"exception", "instruction breakpoint", "step"} THEN 2
    ELSE IF m.name = "grayOut" THEN 3
    ELSE IF m.name = "output" THEN 4
    ELSE IF m.name = "terminated" THEN 5
    ELSE IF m.name = "exited" /\ m.code = 143 THEN 6
    ELSE IF m.name = "stopped" /\ m.detail = "pause" THEN 7
    ELSE IF m.name = "exited" /\ m.code = 0 THEN 8
    ELSE IF m.name = "capabilities" THEN 9
    ELSE 0

RunsToStop == cmd.name \in StepCommands \/ (cmd.name \in EntryCommands /\ ~cmd.stop_on_entry)

\* C1: in every iteration the response is the first message written, and the
\* events of the rule order follow it in that order: no event precedes the
\* response, no event of a later rule precedes an event of an earlier rule.
ResponseThenEventsInRuleOrder ==
    /\ \A i \in 1..Len(sent) : sent[i].type = "response" => i = 1
    /\ pc = "idle" /\ cmd.name # "none" => Len(sent) >= 1 /\ sent[1].type = "response"
    /\ sent # <<>> => sent[1].type = "response"
    /\ \A i \in 1..Len(sent) : \A j \in 1..Len(sent) :
          (i < j /\ RuleOf(sent[i]) # 0 /\ RuleOf(sent[j]) # 0) => RuleOf(sent[i]) <= RuleOf(sent[j])

\* an iteration that wrote events of three different rules after the response
WitnessRuleOrder ==
    /\ pc = "idle"
    /\ cmd.name = "terminate"
    /\ {RuleOf(sent[i]) : i \in 2..Len(sent)} = {5, 6, 8}

CapabilitiesSentOnChange ==
    [][pc' = "idle" =>
        IF can_step_back # can_step_backward(sim')
        THEN /\ Cardinality({i \in 1..Len(sent') : IsNamed(sent'[i], "capabilities")}) = 1
             /\ \E i \in 1..Len(sent') : sent'[i] = CapabilitiesDAPEvent(can_step_backward(sim'))
        ELSE \A i \in 1..Len(sent') : ~IsNamed(sent'[i], "capabilities")]_vars

\* C4 (as claimed): the events after the response of a terminate are exactly
\* Terminated, Exited(143).
TerminateSendsExactlyThePair ==
    (pc = "idle" /\ cmd.name = "terminate") =>
        SubSeq(sent, 2, Len(sent)) = <<TerminatedDAPEvent, ExitedDAPEvent(143)>>

\* C5: after a launch or restart with stop-on-entry exactly one Stopped
\* event is written, and its reason is entry.
OneStoppedOnEntry ==
    (pc = "idle" /\ cmd.name \in EntryCommands /\ cmd.stop_on_entry) =>
        /\ Cardinality(StoppedAt) = 1
        /\ \A i \in StoppedAt : sent[i].detail = "entry"

WitnessStoppedOnEntry ==
    /\ pc = "idle"
    /\ cmd.name = "restart"
    /\ cmd.stop_on_entry
    /\ get_instruction_count(sim) > 0
    /\ \E i \in StoppedAt : sent[i].detail = "entry"

\* C6: a Stopped event with reason exception is followed by exactly one
\* GrayOut event and then by Output events, at least one; an iteration after
\* which the engine reports no failed assertion writes neither.
ExceptionThenGrayOutThenOutput ==
    /\ \A i \in StoppedAt : sent[i].detail = "exception" =>
          /\ NamedAt("grayOut") = {i + 1}
          /\ NamedAt("output") # {}
          /\ \E k \in (i + 2)..Len(sent) : NamedAt("output") = (i + 2)..k
    /\ ~did_assertion_fail(sim) => NamedAt("grayOut") = {} /\ NamedAt("output") = {}

WitnessException ==
    /\ pc = "idle"
    /\ cmd.name = "next"
    /\ \E i \in StoppedAt : sent[i].detail = "exception"

\* C7: whatever the command, Exited(0) is written (once) exactly when the
\* engine reports the execution finished and at least one instruction was
\* executed; after an initialize, or a launch or restart that only loaded the
\* program, none is written.
ExitedZeroIffFinishedAfterRunning ==
    (pc = "idle" /\ cmd.name # "none") =>
        /\ Cardinality(ExitedAt(0)) =
              (IF sim.ip = Len(InstructionStarts(sim.code, 1)) /\ sim.ip >= 1 THEN 1 ELSE 0)
        /\ (cmd.name = "initialize" \/ (cmd.name \in EntryCommands /\ cmd.stop_on_entry))
              => ExitedAt(0) = {}

WitnessExitedZero ==
    /\ pc = "idle"
    /\ cmd.name = "continue"
    /\ ExitedAt(0) # {}

\* C8: after a pause exactly one Stopped event is written, after the
\* response, and its reason is pause.
OneStoppedOnPause ==
    (pc = "idle" /\ cmd.name = "pause") =>
        /\ Cardinality(StoppedAt) = 1
        /\ \A i \in StoppedAt : i > 1 /\ sent[1].type = "response" /\ sent[i].detail = "pause"

WitnessPause ==
    /\ pc = "idle"
    /\ cmd.name = "pause"
    /\ sim.handle = "live"
    /\ \E i \in StoppedAt : sent[i].detail = "pause"

\* C9: for every offset p of the loaded text, newline offsets included, and
\* under the session's indexing convention, converting p to (line, column)
\* and back yields p.
OffsetRoundTrip ==
    \A p \in 0..(Len(source_code) - 1) :
        LET lc == code_pos_to_coordinates(source_code, lines_start_at_one, columns_start_at_one, p)
        IN code_coordinates_to_pos(source_code, lines_start_at_one, columns_start_at_one,
                                   lc[1], lc[2]) = p

\* a text with a line break that is not its last character, 0-based lines and 1-based columns
WitnessOffsetRoundTrip ==
    /\ ~lines_start_at_one
    /\ columns_start_at_one
    /\ \E p \in 1..(Len(source_code) - 1) :
          /\ source_code[p] = "nl"
          /\ code_pos_to_coordinates(source_code, lines_start_at_one, columns_start_at_one, p)[1] >= 1

\* the (line, column) pairs, 0-based, that address a character of the text:
\* the characters of each line and the line break that ends it
Addressed(text) ==
    LET lines == Split(text)
    IN {lc \in (0..(Len(lines) - 1)) \X (0..Len(text)) :
            \/ lc[2] < Len(lines[lc[1] + 1])
            \/ lc[2] = Len(lines[lc[1] + 1]) /\ lc[1] + 1 < Len(lines)}

\* C10 (as claimed): for every (line, column) that addresses a character of
\* the loaded text, a line's terminating newline included, converting it to
\* an offset and back yields (line, column).
CoordinatesRoundTrip ==
    \A lc \in Addressed(source_code) :
        LET line == lc[1] + (IF lines_start_at_one THEN 1 ELSE 0)
            col == lc[2] + (IF columns_start_at_one THEN 1 ELSE 0)
        IN code_pos_to_coordinates(source_code, lines_start_at_one, columns_start_at_one,
               code_coordinates_to_pos(source_code, lines_start_at_one, columns_start_at_one,
                                       line, col)) = <<line, col>>

\* ------------------------------------------------- reading a setBreakpoints cycle
\* the last iteration handled a setBreakpoints request and completed
BreakpointsCycle == pc = "idle" /\ cmd.name = "setBreakpoints"

\* the offset the server asks of the engine for the k-th requested breakpoint
RequestedPosition(k) == BreakpointPosition(Session, cmd.breakpoints[k])

\* the requested breakpoints (by place in the request) the engine can resolve
Resolvable == {k \in 1..Len(cmd.breakpoints) : ~set_breakpoint_fails(sim, RequestedPosition(k))}

\* C11: a setBreakpoints request whose source name or path differs from the
\* loaded source is answered with success and one entry per requested
\* breakpoint, each with verified false and reason failed, and the engine's
\* breakpoint table after it is the table before it.
WrongFileLeavesTable ==
    [][(/\ cmd'.name = "setBreakpoints"
        /\ source_file # NoSourceFile
        /\ (cmd'.source.name # source_file.name \/ cmd'.source.path # source_file.path))
       => /\ pc' = "idle"
          /\ sent'[1].type = "response" /\ sent'[1].name = "setBreakpoints"
          /\ sent'[1].detail = "success"
          /\ Len(sent'[1].body) = Len(cmd'.breakpoints)
          /\ \A k \in 1..Len(sent'[1].body) :
                ~sent'[1].body[k].verified /\ sent'[1].body[k].reason = "failed"
          /\ sim'.breakpoints = sim.breakpoints]_vars

\* a request for the main file's name under another path, while a breakpoint is set
WitnessWrongFile ==
    /\ BreakpointsCycle
    /\ cmd.source.name = source_file.name
    /\ cmd.source.path # source_file.path
    /\ Len(cmd.breakpoints) >= 1
    /\ sim.breakpoints # {}
    /\ \A k \in 1..Len(sent[1].body) : ~sent[1].body[k].verified

\* C12: after a setBreakpoints request for the loaded source, the engine's
\* breakpoint table holds exactly the instructions that this request's
\* positions resolve to, and the response has one entry per requested
\* breakpoint, in request order, the entry at place k having id k (from 0).
TableIsLastRequest ==
    (BreakpointsCycle /\ cmd.source = source_file)
    => /\ sim.breakpoints = {breakpoint_instruction(sim, RequestedPosition(k)) : k \in Resolvable}
       /\ Len(sent[1].body) = Len(cmd.breakpoints)
       /\ \A k \in 1..Len(cmd.breakpoints) :
             /\ sent[1].body[k].id = k - 1
             /\ sent[1].body[k].verified <=> k \in Resolvable

\* a request for the loaded source none of whose positions resolves, on a
\* program that has an instruction: the table is left empty
WitnessTableReplaced ==
    /\ BreakpointsCycle
    /\ cmd.source = source_file
    /\ Len(cmd.breakpoints) >= 1
    /\ get_instruction_count(sim) > 0
    /\ Resolvable = {}
    /\ sim.breakpoints = {}

\* C13: in a setBreakpoints request for the loaded source, a position the
\* engine cannot resolve gets an entry with verified false and a message,
\* the response is a success, and every position the engine can resolve is
\* set in the engine and gets an entry with verified true.
UnresolvedIsPerBreakpoint ==
    (BreakpointsCycle /\ cmd.source = source_file)
    => /\ sent[1].type = "response" /\ sent[1].detail = "success"
       /\ Len(sent[1].body) = Len(cmd.breakpoints)
       /\ \A k \in 1..Len(cmd.breakpoints) :
             IF k \in Resolvable
             THEN /\ sent[1].body[k].verified
                  /\ breakpoint_instruction(sim, RequestedPosition(k)) \in sim.breakpoints
             ELSE /\ ~sent[1].body[k].verified
                  /\ sent[1].body[k].message # ""

\* a request whose first position cannot be resolved and whose second can
WitnessUnresolvedThenSet ==
    /\ BreakpointsCycle
    /\ cmd.source = source_file
    /\ Len(cmd.breakpoints) = 2
    /\ 1 \notin Resolvable
    /\ 2 \in Resolvable
    /\ ~sent[1].body[1].verified
    /\ sent[1].body[2].verified
    /\ sim.breakpoints # {}

\* ------------------------------------------------------ failures and the loop
\* the fields of the Session State
session == <<sim, can_step_back, lines_start_at_one, columns_start_at_one, source_code,
             source_file>>

\* the last iteration was answered with a failure response
AnsweredWithFailure(command) ==
    /\ Len(sent) >= 1
    /\ sent[1].type = "response" /\ sent[1].name = command /\ sent[1].detail = "failure"

\* C14 (as claimed): an initialize with another adapter ID, or a launch or
\* restart without an existing program, is answered with a failure response,
\* and the loop goes on to the next request.
InvalidRequestAnswered ==
    [][ValidationFails => (pc' = "idle" /\ AnsweredWithFailure(ResponseCommand(cmd))')]_vars

\* C15 (as claimed): when the engine rejects the program of a launch or of a
\* restart, the request is answered with a failure response and the loop
\* goes on to the next request.
RejectedProgramAnswered ==
    [][(LaunchRejected \/ RestartRejected) => (pc' = "idle" /\ AnsweredWithFailure("launch")')]_vars

\* C16: a request for a command that is not registered is followed by no
\* response and no event, leaves the Session State as it was, and ends the
\* loop: nothing is handled after it.
UnsupportedEndsLoop ==
    [][/\ cmd'.name = "unsupported" => (sent' = <<>> /\ pc' = "dead" /\ UNCHANGED session)
       /\ cmd.name # "unsupported"]_vars

\* an unsupported command arrived in a session that has a loaded program
WitnessUnsupported ==
    /\ cmd.name = "unsupported"
    /\ pc = "dead"
    /\ sent = <<>>
    /\ sim.handle = "live"
    /\ get_instruction_count(sim) > 0

\* C17 (as claimed): whenever a command gives the session a new engine
\* handle, the handle it replaces has been released, so that the handles
\* created and not yet destroyed are never more than one.  (initialize is
\* the one command that creates a handle.)
ReplacedHandleWasReleased ==
    [][(cmd'.name = "initialize" /\ pc' = "idle") => sim.handle # "live"]_vars

\* C20 (as claimed): once the cycle of a terminate command has completed,
\* no further request is handled.
LoopEndsAfterTerminate ==
    [][(pc = "idle" /\ cmd.name = "terminate") => UNCHANGED vars]_vars

\* ------------------------------------------------------------- framing
\* C18 (as claimed): whatever the bodies of the frames and however the
\* stream is cut into recv results, decoding never fails, the payloads
\* dispatched are the bodies of the frames sent, in order and each once, and
\* once the loop waits in recv with nothing left to receive, every frame
\* has been dispatched.
FramesDispatchedExactly ==
    /\ pc # "dead"
    /\ Len(dispatched) <= Len(frames)
    /\ \A k \in 1..Len(dispatched) : dispatched[k] = frames[k]
    /\ (pc = "idle" /\ inbound = <<>> /\ Receives) => dispatched = frames

\* ------------------------------------------------------------- sending
\* the bytes of wire after the header
WireBody == SubSeq(wire, 7, Len(wire))

\* C19: the bytes written for a message are the header Content-Length: N,
\* CR LF CR LF, and then the UTF-8 bytes of the JSON text with every LF
\* replaced by CR LF, N being the number of those bytes.
ContentLengthIsByteCount ==
    wire # <<>>
    => /\ SubSeq(wire, 1, 1) = <<"Content-Length:">>
       /\ SubSeq(wire, 3, 6) = <<"CR", "LF", "CR", "LF">>
       /\ WireBody = Utf8(ReplaceLF(payload))
       /\ \A i \in 1..Len(WireBody) : WireBody[i] = "LF" => (i > 1 /\ WireBody[i - 1] = "CR")
       /\ wire[2] = Len(WireBody)

\* a message whose text holds a line feed and characters outside ASCII
WitnessNonAsciiSent ==
    /\ wire # <<>>
    /\ \E i \in 1..Len(payload) : payload[i] = "u"
    /\ \E i \in 1..Len(payload) : payload[i] = "n"
    /\ wire[2] = Len(payload)


\* the next recv of the loop returns zero bytes: the peer has closed and
\* everything it sent has been received
PeerClosed == pc = "idle" /\ inbound = <<>> /\ Receives

\* C21 (as claimed): once recv returns zero bytes the loop returns after
\* finitely many iterations, whatever the receive buffer holds.
ClosedConnectionReturns == PeerClosed ~> (pc = "returned")

\* --------------------------------------------------------- responses
\* the responses written by the last iteration
ResponsesAt == {i \in 1..Len(sent) : sent[i].type = "response"}

\* C22 (as claimed): every response carries the seq of the request it
\* answers as request_seq, and that request's command name as command, for
\* every registered command.
ResponseNamesItsRequest ==
    \A i \in ResponsesAt :
        /\ sent[i].request_seq = cmd.seq
        /\ cmd.name \in supported_messages => sent[i].name = cmd.name

\* C23 (as claimed): in every session state, a request for a registered
\* command is answered by exactly one response in the iteration that
\* handles it, and the loop goes on to read the next message.
EveryRequestAnswered ==
    [][cmd'.name \in supported_messages => (Cardinality(ResponsesAt') = 1 /\ pc' = "idle")]_vars

\* C24 (as claimed): an initialize request with adapter ID mqtqasm is
\* answered with a success whose body has supportsStepBack true and lists
\* as exceptionBreakpointFilters exactly the filters all, ent, sup and eq.
InitializeListsFourFilters ==
    (pc = "idle" /\ cmd.name = "initialize") =>
        /\ sent[1].type = "response" /\ sent[1].detail = "success"
        /\ sent[1].body.supportsStepBack
        /\ Len(sent[1].body.exceptionBreakpointFilters) = 4
        /\ {sent[1].body.exceptionBreakpointFilters[i] : i \in 1..4} = {"all", "ent", "sup", "eq"}

\* ------------------------------------------------------------- variables
\* the engine indices of the bits of register b
RegisterBits(s, b) ==
    {i \in 0..(get_num_classical_variables(s) - 1) :
        HasBracket(get_classical_variable_name(s, i)) /\ get_classical_variable_name(s, i).base = b}

MultiBitRegisters(s) ==
    {b \in {s.classical[k].base : k \in 1..Len(s.classical)} : Cardinality(RegisterBits(s, b)) >= 2}

FirstBit(s, b) == CHOOSE i \in RegisterBits(s, b) : \A j \in RegisterBits(s, b) : i <= j

\* the leaves of the bits of register b, by ascending engine index
RECURSIVE LeavesFrom(_, _, _)
LeavesFrom(s, b, i) ==
    IF i >= get_num_classical_variables(s) THEN <<>>
    ELSE (IF i \in RegisterBits(s, b) THEN <<Variable(get_classical_variable_name(s, i), "boolean", 0)>>
          ELSE <<>>) \o LeavesFrom(s, b, i + 1)

VariablesAnswered == pc = "idle" /\ cmd.name = "variables" /\ sent[1].type = "response"

\* the registers a listing names: their references are 10 plus the first bit
ListingReferences ==
    (VariablesAnswered /\ cmd.reference = 1) =>
        /\ \A k \in 1..Len(sent[1].body) :
              sent[1].body[k].name.base \in MultiBitRegisters(sim) =>
                 sent[1].body[k].variablesReference = 10 + FirstBit(sim, sent[1].body[k].name.base)
        /\ \A k \in 1..Len(sent[1].body) : \A j \in 1..Len(sent[1].body) :
              (/\ j # k
               /\ sent[1].body[k].name.base \in MultiBitRegisters(sim)
               /\ sent[1].body[j].name.base \in MultiBitRegisters(sim))
              => /\ sent[1].body[k].variablesReference # sent[1].body[j].variablesReference
                 /\ sent[1].body[k].variablesReference \notin {0, 1, 2}

\* C25 (as claimed): every multi-bit register a reference-1 listing names
\* carries the reference 10 + the engine index of its first bit, distinct
\* registers carry distinct references other than 0, 1 and 2, and every
\* variables request with such a reference is answered by exactly the bits of
\* that register, as leaves, by ascending index.
RegisterReferenceGivesItsBits ==
    /\ ListingReferences
    /\ \A b \in MultiBitRegisters(sim) :
          (VariablesAnswered /\ cmd.reference = 10 + FirstBit(sim, b)) =>
              sent[1].body = LeavesFrom(sim, b, 0)

\* C25 (amended): the same, for the requests with such a reference whose
\* filter is not "named"; a request with the filter "named" is answered by
\* the empty list.
RegisterReferenceGivesItsBitsUnlessNamed ==
    /\ ListingReferences
    /\ \A b \in MultiBitRegisters(sim) :
          (VariablesAnswered /\ cmd.reference = 10 + FirstBit(sim, b)) =>
              sent[1].body = (IF cmd.filter_value = "named" THEN <<>> ELSE LeavesFrom(sim, b, 0))

\* the bits of the first of two registers were asked for and returned
RegisterBitsReturned ==
    /\ VariablesAnswered
    /\ Cardinality(MultiBitRegisters(sim)) >= 2
    /\ \E b \in MultiBitRegisters(sim) :
          /\ cmd.reference = 10 + FirstBit(sim, b)
          /\ \E i \in 0..(get_num_classical_variables(sim) - 1) :
                i > FirstBit(sim, b) /\ i \notin RegisterBits(sim, b)
          /\ Len(sent[1].body) >= 2
          /\ sent[1].body = LeavesFrom(sim, b, 0)

\* ------------------------------------------------------------ validation
\* C26: a request whose validation fails leaves every field of the session
\* as it was, the engine state included, and nothing is written: the failure
\* precedes handle() and the checks that follow it.
ValidationFailureChangesNothing ==
    [][(~cmd'.valid /\ pc = "idle") =>
            /\ UNCHANGED <<sim, can_step_back, lines_start_at_one, columns_start_at_one,
                           source_code, source_file>>
            /\ sent' = <<>>
            /\ pc' = "dead"]_vars

\* a restart failed its validation in a session that had a program loaded
RestartFailedValidation ==
    /\ pc = "dead"
    /\ ~cmd.valid
    /\ cmd.name = "restart"
    /\ sim.handle = "live"
    /\ sim.code # <<>>
    /\ source_code = sim.code
    /\ sent = <<>>

\* --------------------------------------------------------- can_step_back
\* C27: whenever an iteration of the loop has run to its end, the stored
\* can_step_back is what the engine answers to can_step_backward.
StoredCanStepBackIsCurrent ==
    (pc = "idle" /\ cmd.name # "none") => can_step_back = can_step_backward(sim)

\* a step has taken the program off its first instruction and the stored
\* value has followed
StoredCanStepBackFollowed ==
    /\ pc = "idle"
    /\ cmd.name \in StepCommands
    /\ sim.handle = "live"
    /\ can_step_backward(sim)
    /\ can_step_back

\* ------------------------------------------------- offsets to coordinates
\* the number of line breaks of the text before offset p
NewlinesBefore(text, p) == Cardinality({q \in 0..(p - 1) : text[q + 1] = "nl"})

\* the offset of the first character of the line that holds offset p
LineStartOf(text, p) ==
    CHOOSE q \in 0..p :
        /\ q = 0 \/ text[q] = "nl"
        /\ \A r \in (q + 1)..p : text[r] # "nl"

LineBase == IF lines_start_at_one THEN 1 ELSE 0
ColumnBase == IF columns_start_at_one THEN 1 ELSE 0

\* C28 (as claimed): every offset p of the loaded text is mapped to the line
\* L + lb and the column p - s + cb, L the number of line breaks before p, s
\* the offset at which the line of p starts, lb and cb the bases of the
\* session; so the line is at least lb and the column at least cb.
OffsetToLineAndColumn ==
    \A p \in 0..(Len(source_code) - 1) :
        LET lc == code_pos_to_coordinates(source_code, lines_start_at_one, columns_start_at_one, p)
        IN /\ lc = <<NewlinesBefore(source_code, p) + LineBase,
                     p - LineStartOf(source_code, p) + ColumnBase>>
           /\ lc[1] >= LineBase
           /\ lc[2] >= ColumnBase

\* ------------------------------------------------------ released handles
\* C29 (as claimed): no iteration of the loop goes on to its events and to
\* regular_checks, which ask the engine, with a handle that terminate or
\* disconnect has released, be it the iteration of the releasing command or
\* a later one; the iteration of an initialize has a new handle by then.
ReleasedHandleIsNotAsked ==
    (cmd.name # "none" /\ sent # <<>>) => sim.handle # "released"

\* C30 (as claimed): terminate and disconnect, which pass the handle of the
\* session to destroy_ddsim_simulation_state, are never handled while that
\* handle is one already released.
HandleReleasedAtMostOnce ==
    [][cmd'.name \in {"terminate", "disconnect"} => sim.handle # "released"]_vars

\* -------------------------------------------------- execution operations
\* the operations the claim gives each command, the engine being in state s
\* when the request arrives
ClaimedCalls(c, s) ==
    CASE c.name = "next" -> <<"step_over_forward">>
      [] c.name = "stepIn" -> <<"step_forward">>
      [] c.name = "stepOut" -> <<"step_out_forward">>
      [] c.name = "stepBack" -> IF can_step_backward(s) THEN <<"step_over_backward">> ELSE <<>>
      [] c.name = "continue" -> <<"run_simulation">>
      [] c.name = "reverseContinue" -> <<"run_simulation_backward">>
      [] c.name = "pause" -> <<"pause_simulation">>
      [] c.name \in EntryCommands -> IF c.stop_on_entry THEN <<>> ELSE <<"run_simulation">>

ClaimedCommands ==
    {"next", "stepIn", "stepOut", "stepBack", "continue", "reverseContinue", "pause"} \cup EntryCommands

\* a stepBack that finds a live engine unable to step backward is answered with success
IdleStepBackAnswered ==
    (cmd'.name = "stepBack" /\ sim.handle = "live" /\ ~can_step_backward(sim)) =>
        /\ pc' = "idle"
        /\ sent'[1].type = "response" /\ sent'[1].detail = "success"
        /\ sim' = sim

\* C31 (as claimed): the iteration of every stepping or run command invokes
\* exactly the one operation of that command, once; that of a launch or
\* restart invokes run_simulation exactly when stop-on-entry was not
\* requested; a stepBack that finds the engine unable to step backward
\* invokes nothing and is answered with success.
OneOperationPerRequest ==
    [][(pc = "idle" /\ cmd'.name \in ClaimedCommands) =>
            /\ calls' = ClaimedCalls(cmd', sim)
            /\ IdleStepBackAnswered]_vars

\* C31 (amended): the same, launch and restart being those whose program the
\* engine has loaded (the ones answered with success); a launch or restart
\* that fails its validation or whose program is rejected invokes no
\* execution operation, whatever its stop-on-entry.
OneOperationPerLoadedRequest ==
    [][(pc = "idle" /\ cmd'.name \in ClaimedCommands) =>
            /\ calls' = (IF cmd'.name \in EntryCommands
                             /\ ~(pc' = "idle" /\ sent'[1].detail = "success")
                         THEN <<>> ELSE ClaimedCalls(cmd', sim))
            /\ IdleStepBackAnswered]_vars

\* a stepBack arrived at the first instruction of a loaded program
StepBackAtStart ==
    /\ pc = "idle"
    /\ cmd.name = "stepBack"
    /\ sim.handle = "live"
    /\ get_instruction_count(sim) > 0
    /\ ~can_step_backward(sim)
    /\ calls = <<>>
    /\ sent[1].type = "response" /\ sent[1].detail = "success"

\* ------------------------------------------------------------ restartFrame
\* C32 (as claimed): a restartFrame request for a frame of the stack is
\* handled to its end: the loop of backward step-outs is left, and the
\* request is answered with a response followed by one Stopped event.
RestartFrameTerminates ==
    (pc = "handling") ~>
        (/\ pc = "idle"
         /\ cmd.name = "restartFrame"
         /\ sent[1].type = "response"
         /\ Cardinality(StoppedAt) = 1)

\* ------------------------------------------------------------------ grayOut
GrayOutEvents == {k \in 1..Len(sent) : sent[k].type = "event" /\ sent[k].name = "grayOut"}

\* the instructions that are not data dependencies of the failing one
Independent == (0..(get_instruction_count(sim) - 1)) \ sim.dependencies

\* C33: the GrayOut event of an assertion failure lists, in ascending
\* instruction order, the span (start, end) of exactly the instructions
\* 0..count-1 that are not among the data dependencies the diagnostics report
\* for the failing instruction: one range per such instruction, none for a
\* dependency, the starts strictly increasing
GrayOutIsComplementOfDependencies ==
    \A k \in GrayOutEvents :
        LET ranges == sent[k].body.ranges
        IN /\ Len(ranges) = Cardinality(Independent)
           /\ {ranges[j] : j \in 1..Len(ranges)}
                = {get_instruction_position(sim, i) : i \in Independent}
           /\ \A i, j \in 1..Len(ranges) : i < j => ranges[i][1] < ranges[j][1]

\* an assertion failed in a program of several instructions, some of them
\* dependencies of the failing one and some not
GrayOutOfSomeInstructions ==
    /\ GrayOutEvents # {}
    /\ did_assertion_fail(sim)
    /\ sim.dependencies # {}
    /\ Cardinality(Independent) >= 2
    /\ \A k \in GrayOutEvents : Len(sent[k].body.ranges) = Cardinality(Independent)

\* ------------------------------------------------------------ output groups
\* the number of groups open after the first k messages of the iteration
RECURSIVE OpenGroups(_)
OpenGroups(k) ==
    IF k = 0 THEN 0
    ELSE OpenGroups(k - 1)
         + (IF sent[k].name = "output" /\ sent[k].detail = "start" THEN 1
            ELSE IF sent[k].name = "output" /\ sent[k].detail = "end" THEN -1
            ELSE 0)

\* C34: the Output events of one assertion failure form a well-nested group
\* sequence, whatever the number of reported error causes: no group end is
\* written while no group is open, and when the iteration ends every group
\* that was started has been closed
OutputGroupsAreWellNested ==
    /\ \A k \in 1..Len(sent) : OpenGroups(k) >= 0
    /\ OpenGroups(Len(sent)) = 0

\* an assertion failed with a cause that has a text: the group of the causes
\* was opened inside the group of the failure, and both were closed
NestedOutputGroups ==
    /\ pc = "idle"
    /\ did_assertion_fail(sim)
    /\ \E k \in 1..Len(sent) : OpenGroups(k) = 2
    /\ OpenGroups(Len(sent)) = 0

\* ------------------------------------------------ announced step-back support
\* the messages of an iteration that announce supportsStepBack: the
\* successful response to initialize and the Capabilities event
Announcements(msgs) ==
    {k \in 1..Len(msgs) :
        \/ IsNamed(msgs[k], "capabilities")
        \/ msgs[k].type = "response" /\ msgs[k].name = "initialize" /\ msgs[k].detail = "success"}

AnnouncedBy(m) == IF m.type = "response" THEN m.body.supportsStepBack ELSE m.detail = "true"

\* the value most recently announced after an iteration that wrote msgs, the
\* value announced before it being previous
LastAnnounced(previous, msgs) ==
    IF Announcements(msgs) = {} THEN previous
    ELSE AnnouncedBy(msgs[CHOOSE k \in Announcements(msgs) : \A j \in Announcements(msgs) : j <= k])

\* C35 (as claimed): after a completed cycle that follows initialize the
\* supportsStepBack value most recently announced to the client equals what
\* the engine's can_step_backward returns; stated for the cycle that comes
\* right after the cycle of initialize and leaves a created engine
AnnouncedStepBackIsCurrent ==
    [][(/\ pc = "idle" /\ cmd.name = "initialize" /\ Announcements(sent) # {}
        /\ pc' = "idle" /\ sim'.handle = "live")
       => LastAnnounced(LastAnnounced(FALSE, sent), sent') = can_step_backward(sim')]_vars

\* ------------------------------------------------------------ failed launch
\* the iteration handled a launch and answered it with success = false
LaunchAnsweredFailure(c, msgs) ==
    /\ c.name = "launch"
    /\ msgs # <<>>
    /\ msgs[1].type = "response" /\ msgs[1].detail = "failure"

\* C36 (as claimed): a launch answered with success = false is followed in
\* its cycle by no Initialized event and by no Stopped event
FailedLaunchSendsNoEvent ==
    (pc = "idle" /\ LaunchAnsweredFailure(cmd, sent)) =>
        /\ \A k \in 1..Len(sent) : ~IsNamed(sent[k], "initialized")
        /\ StoppedAt = {}

\* C37 (as claimed): a launch that fails leaves the stored source text and
\* the stored source descriptor as they were
FailedLaunchKeepsSource ==
    [][(pc' = "idle" /\ LaunchAnsweredFailure(cmd', sent')) =>
          /\ source_code' = source_code
          /\ source_file' = source_file]_vars

\* -------------------------------------------------------- read-only commands
ReadOnlyCommands == {"threads", "stackTrace", "scopes", "variables", "configurationDone"}

\* C38 (as claimed): the cycle of a read-only command leaves the engine and
\* the fields of the session as they were and writes nothing but the
\* response, in every state of the session, a finished program included
ReadOnlyCycleChangesNothing ==
    [][(pc = "idle" /\ pc' = "idle" /\ cmd'.name \in ReadOnlyCommands) =>
          /\ sim' = sim
          /\ UNCHANGED <<source_code, source_file, lines_start_at_one, columns_start_at_one,
                         can_step_back>>
          /\ \A k \in 1..Len(sent') : sent'[k].type # "event"]_vars

\* ------------------------------------------------------------ quantum state
\* the names of the basis states first .. first + number - 1 of num_q qubits
BasisStates(num_q, first, number) == [k \in 1..number |-> FormatBinary(first + k - 1, num_q)]

\* C39 (as claimed): a variables request for reference 2 without filter on a
\* program of n <= 8 qubits is answered, for count 0, with the 2^n basis
\* states in ascending order, as many as the namedVariables of the Quantum
\* State scope, and for a count c > 0 and a start s with the c basis states
\* s .. s+c-1
QuantumStateIsPaged ==
    (/\ pc = "idle" /\ cmd.name = "variables" /\ cmd.reference = 2 /\ cmd.filter_value = ""
     /\ get_num_qubits(sim) <= 8) =>
        LET names == [k \in 1..Len(sent[1].body) |-> sent[1].body[k].name]
        IN IF cmd.count = 0
           THEN /\ Len(names) = QuantumScopeNamedVariables(sim)
                /\ names = BasisStates(get_num_qubits(sim), 0, 2 ^ get_num_qubits(sim))
           ELSE names = BasisStates(get_num_qubits(sim), cmd.start, cmd.count)

\* --------------------------------------------------------- exception filters
\* the filters that enable some kind of assertion
EnablingFilters == {"all", "ent", "sup", "eq"}

\* C40 (as claimed): a Stopped event with the reason exception is written
\* only while the filters last recorded by setExceptionBreakpoints enable the
\* kind of the failed assertion, so at least one enabling filter is
\* recorded; with no filter recorded no Stopped(exception) is written
StoppedOnExceptionOnlyWhenEnabled ==
    (/\ pc = "idle"
     /\ exception_breakpoints # NoExceptionBreakpoints
     /\ \E k \in StoppedAt : sent[k].detail = "exception") =>
        exception_breakpoints \cap EnablingFilters # {}

====
